---- MODULE Spec2Model ----
(***************************************************************************)
(* ArbEdge: the access-control and distribution pipeline.                  *)
(*                                                                         *)
(*   - TelegramService: webhook dispatch, the session gate in front of     *)
(*     typed commands, the group/private command tables, button callbacks  *)
(*     and check_user_permission (telegram.rs);                            *)
(*   - AiIntelligenceService::check_ai_rate_limit (ai_intelligence.rs);    *)
(*   - AiIntegrationService: the per-user AI key records and their index   *)
(*     (ai_integration.rs);                                                *)
(*   - the fan-out around NotificationSender::send_opportunity_notification*)
(*                                                                         *)
(* Each component has its own specification over the shared variables;     *)
(* a specification leaves the variables of the other components at their   *)
(* initial values.                                                         *)
(***************************************************************************)
EXTENDS Integers, Sequences, FiniteSets, TLC

VARIABLES
    \* ---- TelegramService ------------------------------------------------
    is_test_mode,                \* TelegramConfig.is_test_mode
    user_profile_service,        \* TRUE iff Option<UserProfileService> is Some
    session_management_service,  \* TRUE iff Option<SessionManagementService> is Some
    profiles,                    \* the user store read by get_user_by_telegram_id
    sessions,                    \* the session store behind SessionManagementService
    now,                         \* the clock, in ticks
    requests,                    \* webhook invocations suspended at an await
    response,                    \* what the last finished invocation produced
    rbac_last,                   \* the last check_user_permission call and its result
    \* ---- AiIntelligenceService::check_ai_rate_limit ----------------------
    rate_kv,                     \* KV entries "ai_intelligence_rate:{user}:{hour}"
    rate_clock,                  \* chrono::Utc::now(), in ticks
    rate_log,                    \* per user: calls made and admitted in the window
    rate_last,                   \* the last check_ai_rate_limit call and its result
    ai_call,                     \* the last AI enrichment call and what it did
    rate_conc,                   \* check_ai_rate_limit calls in flight in several isolates
    pipelines_service,           \* TRUE iff Option<PipelineManager> is Some
    development_mode,            \* the deployment's mode; no field of the service holds it
    market_cache,                \* KV entries "market_data:{exchange}:{symbol}"
    market_last,                 \* the last fetch_exchange_data_for_positions call
    global_opp,                  \* the last convert_to_global_opportunity call
    \* ---- UserExchangeApiService -------------------------------------------
    api_keys,                    \* per user: user_profile.api_keys of the stored profile
    validation_cache,            \* KV entries "api_validation:{user}:{exchange}"
    compatibility_cache,         \* KV entries "exchange_compatibility:{user}"
    exchange_last,               \* the last UserExchangeApiService call and its result
    \* ---- AiIntegrationService ---------------------------------------------
    ai_key_records,              \* KV entries "ai_key:{user}:{api_key_id}"
    ai_key_index,                \* KV entries "ai_key_index:{user}"
    next_api_key_id,             \* the next uuid::Uuid::new_v4()
    vault_last,                  \* the last store/remove call and its result
    vault_ops,                   \* store/remove/read calls suspended at a KV await
    vault_hist,                  \* what the calls so far returned and read
    vault_list,                  \* the last get_user_ai_keys call and its result
    ai_key_data,                 \* KV: the UserApiKey written under each record key
    vault_given,                 \* what each store that returned Ok was given
    vault_validate,              \* the last call that decrypted a key, and its result
    crypt,                       \* a string under encrypt_string and decrypt_string
    \* ---- opportunity fan-out ----------------------------------------------
    dist_idem,                   \* idempotency markers (opportunity, recipient)
    dist_queue,                  \* deliveries submitted and not yet processed
    dist_log,                    \* per (opportunity, recipient): what happened
    dist_submissions,            \* per opportunity: how often it was submitted
    dist_state,                  \* per (opportunity, recipient): the decision reached
    dist_created,                \* per opportunity: when it was created, or NotCreated
    dist_clock                   \* the engine's clock

tgVars == <<is_test_mode, user_profile_service, session_management_service,
            profiles, sessions, now, requests, response>>
exchangeVars == <<api_keys, validation_cache, compatibility_cache, exchange_last>>
marketVars == <<pipelines_service, development_mode, market_cache, market_last,
               global_opp, exchangeVars>>
rateVars == <<rate_kv, rate_clock, rate_log, rate_last, ai_call, rate_conc, marketVars>>
cycleVars == <<ai_key_data, vault_given, vault_validate, crypt>>
vaultVars == <<ai_key_records, ai_key_index, next_api_key_id, vault_last,
              vault_ops, vault_hist, vault_list, cycleVars>>
policyVars == <<dist_state, dist_created, dist_clock>>
distVars == <<dist_idem, dist_queue, dist_log, dist_submissions, policyVars>>

vars == <<tgVars, rbac_last, rateVars, vaultVars, distVars>>

(***************************************************************************)
(* Bounds of the model.                                                    *)
(***************************************************************************)
MaxTime == 3
SessionTtlTicks == 2
RequestTimeoutTicks == 1
MaxRequests == 2
\* The rate limiter: ticks per clock hour, the last tick, the hourly limit
\* (AiIntelligenceConfig.max_ai_calls_per_hour, 100 by default) and the
\* calls one user makes per window.
TicksPerHour == 2
MaxRateClock == 3
max_ai_calls_per_hour == 2
MaxCallsPerWindow == 4
\* The vault: the cap (AiIntegrationConfig.max_ai_keys_per_user, 10 by
\* default) and the number of key ids ever generated.
max_ai_keys_per_user == 2
MaxApiKeyIds == 4
\* The fan-out: submissions of one opportunity.
MaxSubmissions == 2
OpportunityTtlTicks == 1
MaxDistClock == 2

(***************************************************************************)
(* Users.  A webhook carries from.id as a JSON u64 and the service keeps   *)
(* it as its decimal string.  Users are the ids that parse as i64;         *)
(* HugeUserId stands for an id above i64::MAX, on which parse::<i64>()     *)
(* fails.  No stored profile or session has telegram id 0.                 *)
(***************************************************************************)
Users == {1}
HugeUserId == 9
UserIds == Users \cup {HugeUserId}
NoUser == 0

Min(a, b) == IF a < b THEN a ELSE b
Max(a, b) == IF a > b THEN a ELSE b

(***************************************************************************)
(* RBAC: CommandPermission and check_user_permission.                      *)
(***************************************************************************)
BasicPermissions == {"BasicCommands", "BasicOpportunities"}
SubscriptionPermissions ==
    {"ManualTrading", "TechnicalAnalysis", "AIEnhancedOpportunities",
     "AutomatedTrading", "AdvancedAnalytics", "PremiumFeatures"}
AdminPermissions ==
    {"SystemAdministration", "UserManagement", "GlobalConfiguration", "GroupAnalytics"}
CommandPermission == BasicPermissions \cup SubscriptionPermissions \cup AdminPermissions

UserRole == {"Guest", "Basic", "Premium", "Enterprise", "SuperAdmin"}

NoProfile == [exists |-> FALSE, role |-> "Guest", is_active |-> FALSE]
Profiles == {NoProfile} \cup [exists : {TRUE}, role : UserRole, is_active : BOOLEAN]

\* user_id.parse::<i64>().unwrap_or(0)
parse_i64_or_zero(user_id) == IF user_id \in Users THEN user_id ELSE 0

\* user_id.parse::<i64>() succeeds
parses_as_i64(user_id) == user_id \in Users

\* user_id.starts_with("admin_"): user_id is the decimal rendering of a u64
starts_with_admin(user_id) == FALSE

ProfileAt(telegram_id) ==
    IF telegram_id \in DOMAIN profiles THEN profiles[telegram_id] ELSE NoProfile

\* The outcomes of get_user_by_telegram_id: Ok(Some(p)), Ok(None), or Err.
get_user_by_telegram_id(telegram_id) ==
    {[ok |-> TRUE, profile |-> ProfileAt(telegram_id)],
     [ok |-> FALSE, profile |-> NoProfile]}

\* Faulty variant: the beta-period comment taken literally, every user passes the
\* subscription gate
check_user_permission_beta_open(user_id, permission, lookup) ==
    IF ~user_profile_service THEN starts_with_admin(user_id)
    ELSE IF ~(lookup.ok /\ lookup.profile.exists) THEN FALSE
    ELSE IF permission \in BasicPermissions THEN TRUE
    ELSE IF permission \in SubscriptionPermissions THEN TRUE
    ELSE lookup.profile.role = "SuperAdmin"

\* Faulty variant: the admin arm tests the subscription instead of the role
check_user_permission_admin_by_subscription(user_id, permission, lookup) ==
    IF ~user_profile_service THEN starts_with_admin(user_id)
    ELSE IF ~(lookup.ok /\ lookup.profile.exists) THEN FALSE
    ELSE IF permission \in BasicPermissions THEN TRUE
    ELSE lookup.profile.is_active

\* lookup is the outcome of get_user_by_telegram_id(parse_i64_or_zero(user_id))
\* Faulty variant: a user without a stored record is let through
check_user_permission_missing_record_allowed(user_id, permission, lookup) ==
    IF ~user_profile_service THEN starts_with_admin(user_id)
    ELSE IF ~(lookup.ok /\ lookup.profile.exists) THEN TRUE
    ELSE IF permission \in BasicPermissions THEN TRUE
    ELSE IF permission \in SubscriptionPermissions THEN lookup.profile.is_active
    ELSE lookup.profile.role = "SuperAdmin"

check_user_permission(user_id, permission, lookup) ==
    IF ~user_profile_service THEN starts_with_admin(user_id)
    ELSE IF ~(lookup.ok /\ lookup.profile.exists) THEN FALSE
    ELSE IF permission \in BasicPermissions THEN TRUE
    ELSE IF permission \in SubscriptionPermissions THEN lookup.profile.is_active
    ELSE lookup.profile.role = "SuperAdmin"

(***************************************************************************)
(* Sessions (SessionManagementService).  A session is live while           *)
(* now < expires_at; start_session creates or refreshes it, and            *)
(* update_activity extends it without ever shortening it.                  *)
(***************************************************************************)
NoSession == [exists |-> FALSE, last_activity_at |-> 0, expires_at |-> 0]

session_live(telegram_id) ==
    /\ telegram_id \in DOMAIN sessions
    /\ sessions[telegram_id].exists
    /\ now < sessions[telegram_id].expires_at

\* validate_session_by_telegram_id: Ok(true), Ok(false) or Err
validate_session_by_telegram_id(telegram_id) ==
    {IF session_live(telegram_id) THEN "true" ELSE "false", "error"}

start_session(s) ==
    [exists |-> TRUE, last_activity_at |-> now, expires_at |-> now + SessionTtlTicks]

update_activity(s) ==
    IF s.exists
    THEN [exists |-> TRUE,
          last_activity_at |-> Max(s.last_activity_at, now),
          expires_at |-> Max(s.expires_at, now + SessionTtlTicks)]
    ELSE s

(***************************************************************************)
(* Chat context and the command tables.  A typed command is named without  *)
(* its slash: "balance" on the message surface is the text "/balance";     *)
(* "unknown" is any text that matches no arm.                              *)
(***************************************************************************)
ChatType == {"private", "group", "supergroup", "channel"}

is_private(chat) == chat = "private"
is_group_or_channel(chat) == chat \in {"group", "supergroup", "channel"}

TypedCommands ==
    {"start", "help", "status", "settings", "profile", "opportunities", "categories",
     "ai_insights", "risk_assessment", "preferences", "balance", "buy", "sell",
     "orders", "positions", "cancel", "auto_enable", "auto_disable", "auto_config",
     "auto_status", "admin_stats", "admin_users", "admin_config", "admin_broadcast",
     "admin_group_config", "unknown"}

CallbackData ==
    {"main_menu", "opportunities", "categories", "profile", "settings", "help",
     "ai_insights", "risk_assessment", "balance", "orders", "positions", "buy", "sell",
     "auto_enable", "auto_disable", "auto_config", "admin_users", "admin_stats",
     "admin_config", "admin_broadcast", "admin_group_config", "opportunities_all",
     "opportunities_top", "opportunities_enhanced", "opportunities_ai", "unknown"}

\* Faulty variant: the exempt set widened to the commands that need no permission
is_session_exempt_command_wide(command) ==
    command \in {"start", "help", "status", "settings"}

is_session_exempt_command(command) == command \in {"start", "help"}

\* The permission each private-chat arm hands to handle_permissioned_command
\* ("none": the arm calls its handler directly; "unmatched": the _ arm).
private_command_permission(command) ==
    CASE command \in {"start", "help", "status", "settings", "profile", "opportunities",
                      "categories", "ai_insights", "risk_assessment", "preferences"}
            -> "none"
      [] command \in {"balance", "buy", "sell", "orders", "positions", "cancel"}
            -> "ManualTrading"
      [] command \in {"auto_enable", "auto_disable", "auto_config", "auto_status"}
            -> "AutomatedTrading"
      [] command \in {"admin_stats", "admin_broadcast"} -> "SystemAdministration"
      [] command = "admin_users" -> "UserManagement"
      [] command = "admin_config" -> "GlobalConfiguration"
      [] OTHER -> "unmatched"

\* The permission each callback arm checks before sending its message.
callback_permission(data) ==
    CASE data \in {"main_menu", "opportunities", "categories", "profile", "settings",
                   "help", "opportunities_all", "opportunities_top"}
            -> "none"
      [] data \in {"ai_insights", "opportunities_ai"} -> "AIEnhancedOpportunities"
      [] data \in {"risk_assessment", "balance", "orders", "positions",
                   "opportunities_enhanced"}
            -> "AdvancedAnalytics"
      [] data \in {"buy", "sell"} -> "ManualTrading"
      [] data \in {"auto_enable", "auto_disable", "auto_config"} -> "AutomatedTrading"
      [] data \in {"admin_users", "admin_stats", "admin_config", "admin_broadcast",
                   "admin_group_config"}
            -> "SystemAdministration"
      [] OTHER -> "unmatched"

\* handle_permissioned_command: the handler's message, or the denial
handle_permissioned_command(user_id, permission, message, lookup) ==
    IF check_user_permission(user_id, permission, lookup)
    THEN [kind |-> "handler", emitted |-> message]
    ELSE [kind |-> "permission_denied", emitted |-> "permission_denied"]

\* Faulty variant: the group arm lets the status command through
group_command_with_status(command, user_id, lookup) ==
    CASE command \in {"help", "settings", "status"} ->
            [kind |-> "handler", emitted |-> command]
      [] command = "start" -> [kind |-> "handler", emitted |-> "group_welcome"]
      [] command = "opportunities" ->
            [kind |-> "handler", emitted |-> "group_opportunities"]
      [] command = "admin_group_config" ->
            handle_permissioned_command(user_id, "GroupAnalytics", command, lookup)
      [] OTHER -> [kind |-> "private_only_notice", emitted |-> "security_notice"]

\* The group/channel arm of handle_command_with_context.
group_command(command, user_id, lookup) ==
    CASE command \in {"help", "settings"} -> [kind |-> "handler", emitted |-> command]
      [] command = "start" -> [kind |-> "handler", emitted |-> "group_welcome"]
      [] command = "opportunities" ->
            [kind |-> "handler", emitted |-> "group_opportunities"]
      [] command = "admin_group_config" ->
            handle_permissioned_command(user_id, "GroupAnalytics", command, lookup)
      [] OTHER -> [kind |-> "private_only_notice", emitted |-> "security_notice"]

\* The private arm of handle_command_with_context, "/start" apart.
private_command(command, user_id, lookup) ==
    LET permission == private_command_permission(command) IN
    CASE permission = "none" -> [kind |-> "handler", emitted |-> command]
      [] permission = "unmatched" -> [kind |-> "no_response", emitted |-> "none"]
      [] OTHER -> handle_permissioned_command(user_id, permission, command, lookup)

(***************************************************************************)
(* Webhook invocations.  An invocation that reaches an await of the        *)
(* session service is suspended in requests[r]; everything else runs to    *)
(* its result in one step.  response is the result of the invocation that  *)
(* finished in the last step, if any.                                      *)
(***************************************************************************)
Idle == [pc |-> "idle", command |-> "none", chat |-> "none", user |-> NoUser,
         validate |-> "none", age |-> 0]

NoResponse ==
    [surface |-> "none", command |-> "none", chat |-> "none", user |-> NoUser,
     kind |-> "none", emitted |-> "none", validate |-> "none",
     session_service |-> FALSE]

Result(surface, command, chat, user, kind, emitted, validate) ==
    [surface |-> surface, command |-> command, chat |-> chat, user |-> user,
     kind |-> kind, emitted |-> emitted, validate |-> validate,
     session_service |-> session_management_service]

\* The kinds of result that come out of the command match itself.
DispatchKinds == {"handler", "permission_denied", "private_only_notice", "no_response"}

\* An update as handle_webhook reads it.  chat = "malformed": chat.id or a
\* known chat.type is missing; from = NoUser: from.id is missing;
\* complete = FALSE: the callback query lacks its id or its data.
Updates ==
    [kind : {"message"}, text : TypedCommands, chat : ChatType \cup {"malformed"},
     from : UserIds \cup {NoUser}, complete : {TRUE}]
    \cup
    [kind : {"callback_query"}, text : CallbackData, chat : ChatType \cup {"malformed"},
     from : UserIds \cup {NoUser}, complete : BOOLEAN]
    \cup
    [kind : {"other"}, text : {"none"}, chat : {"malformed"}, from : {NoUser},
     complete : {TRUE}]

\* send_message_with_keyboard: nothing leaves in test mode; otherwise the
\* HTTP call delivers the message or fails.
send_message_with_keyboard == IF is_test_mode THEN {"skipped"} ELSE {"sent", "failed"}

\* The rest of handle_command_with_context once the session gate is behind:
\* the group/private match, with start_session on a private "/start".
run_command(command, chat, user, validate) ==
    \E lookup \in get_user_by_telegram_id(parse_i64_or_zero(user)) :
        IF is_private(chat) /\ command = "start"
        THEN IF ~session_management_service
             THEN /\ response' = Result("message", command, chat, user,
                                        "handler", "welcome", validate)
                  /\ UNCHANGED sessions
             ELSE IF ~parses_as_i64(user)
             THEN /\ response' = Result("message", command, chat, user,
                                        "invalid_user_id", "invalid_user_id", validate)
                  /\ UNCHANGED sessions
             ELSE \/ /\ sessions' = [sessions EXCEPT ![user] = start_session(@)]
                     /\ response' = Result("message", command, chat, user,
                                           "handler", "welcome_with_session", validate)
                  \/ /\ UNCHANGED sessions
                     /\ response' = Result("message", command, chat, user,
                                           "handler", "welcome", validate)
        ELSE LET out == IF is_group_or_channel(chat)
                        THEN group_command(command, user, lookup)
                        ELSE private_command(command, user, lookup)
             IN /\ response' = Result("message", command, chat, user,
                                      out.kind, out.emitted, validate)
                /\ UNCHANGED sessions

\* handle_callback_query: the permission check of the arm, the message sent
\* to the callback's chat, the answer to the callback query.  A result of
\* kind "validation_error" or "error" is an Err returned to the caller.
handle_callback_query(update) ==
    /\ UNCHANGED <<sessions, requests>>
    /\ IF ~update.complete \/ update.from = NoUser \/ update.chat = "malformed"
       THEN response' = Result("callback", update.text, update.chat, update.from,
                               "validation_error", "none", "none")
       ELSE \E lookup \in get_user_by_telegram_id(parse_i64_or_zero(update.from)),
               sent \in send_message_with_keyboard,
               answered \in BOOLEAN :
            LET permission == callback_permission(update.text)
                out == CASE permission = "none" ->
                              [kind |-> "handler", emitted |-> update.text]
                         [] permission = "unmatched" ->
                              [kind |-> "handler", emitted |-> "unknown_command"]
                         [] OTHER ->
                              handle_permissioned_command(update.from, permission,
                                                          update.text, lookup)
            IN response' =
                 Result("callback", update.text, update.chat, update.from,
                        IF sent = "failed" \/ (~answered /\ ~is_test_mode)
                        THEN "error" ELSE out.kind,
                        IF sent = "sent" THEN out.emitted ELSE "none",
                        "none")

\* handle_webhook up to its first await on the session service.
handle_webhook(r, update) ==
    /\ requests[r] = Idle
    /\ response = NoResponse
    /\ UNCHANGED <<is_test_mode, user_profile_service, session_management_service,
                   profiles, now>>
    /\ \/ /\ update.kind = "callback_query"
          /\ handle_callback_query(update)
       \/ /\ update.kind = "other"
          /\ response' = Result("other", "none", "none", NoUser,
                                "update_processed", "none", "none")
          /\ UNCHANGED <<sessions, requests>>
       \/ /\ update.kind = "message"
          /\ update.chat = "malformed" \/ update.from = NoUser
          /\ response' = Result("message", update.text, update.chat, update.from,
                                "malformed", "none", "none")
          /\ UNCHANGED <<sessions, requests>>
       \/ /\ update.kind = "message"
          /\ update.chat # "malformed" /\ update.from # NoUser
          /\ update.text = "start" /\ ~is_test_mode
          /\ \E sent \in send_message_with_keyboard :
                response' = Result("message", update.text, update.chat, update.from,
                                   IF sent = "sent" THEN "start_keyboard" ELSE "error",
                                   IF sent # "sent" THEN "none"
                                   ELSE IF is_private(update.chat) THEN "welcome"
                                   ELSE "group_welcome",
                                   "none")
          /\ UNCHANGED <<sessions, requests>>
       \/ /\ update.kind = "message"
          /\ update.chat # "malformed" /\ update.from # NoUser
          /\ ~(update.text = "start" /\ ~is_test_mode)
          /\ IF ~is_session_exempt_command(update.text) /\ session_management_service
             THEN IF ~parses_as_i64(update.from)
                  THEN /\ response' = Result("message", update.text, update.chat,
                                             update.from, "invalid_user_id",
                                             "invalid_user_id", "none")
                       /\ UNCHANGED <<sessions, requests>>
                  ELSE /\ requests' = [requests EXCEPT ![r] =
                                         [pc |-> "validate", command |-> update.text,
                                          chat |-> update.chat, user |-> update.from,
                                          validate |-> "none", age |-> 0]]
                       /\ response' = NoResponse
                       /\ UNCHANGED sessions
             ELSE /\ run_command(update.text, update.chat, update.from, "none")
                  /\ UNCHANGED requests

\* Faulty variant: the rejecting branch opens a session for the user
gate_validate_reject_starts_session(r) ==
    /\ requests[r].pc = "validate"
    /\ response = NoResponse
    /\ UNCHANGED <<is_test_mode, user_profile_service, session_management_service,
                   profiles, now>>
    /\ \E valid \in validate_session_by_telegram_id(requests[r].user) :
          \/ /\ valid = "error"
             /\ requests' = [requests EXCEPT ![r] = Idle]
             /\ response' = Result("message", requests[r].command, requests[r].chat,
                                   requests[r].user, "error", "none", valid)
             /\ UNCHANGED sessions
          \/ /\ valid = "false"
             /\ requests' = [requests EXCEPT ![r] = Idle]
             /\ response' = Result("message", requests[r].command, requests[r].chat,
                                   requests[r].user, "session_required",
                                   "session_required", valid)
             /\ sessions' = [sessions EXCEPT ![requests[r].user] = start_session(@)]
          \/ /\ valid = "true"
             /\ requests' = [requests EXCEPT ![r].pc = "touch", ![r].validate = valid]
             /\ response' = NoResponse
             /\ UNCHANGED sessions

\* The session gate, first await: validate_session_by_telegram_id(..).await?
gate_validate(r) ==
    /\ requests[r].pc = "validate"
    /\ response = NoResponse
    /\ UNCHANGED <<is_test_mode, user_profile_service, session_management_service,
                   profiles, now, sessions>>
    /\ \E valid \in validate_session_by_telegram_id(requests[r].user) :
          \/ /\ valid = "error"
             /\ requests' = [requests EXCEPT ![r] = Idle]
             /\ response' = Result("message", requests[r].command, requests[r].chat,
                                   requests[r].user, "error", "none", valid)
          \/ /\ valid = "false"
             /\ requests' = [requests EXCEPT ![r] = Idle]
             /\ response' = Result("message", requests[r].command, requests[r].chat,
                                   requests[r].user, "session_required",
                                   "session_required", valid)
          \/ /\ valid = "true"
             /\ requests' = [requests EXCEPT ![r].pc = "touch", ![r].validate = valid]
             /\ response' = NoResponse

\* Faulty variant: the activity update is dropped
gate_touch_skipped(r) ==
    /\ requests[r].pc = "touch"
    /\ response = NoResponse
    /\ UNCHANGED <<is_test_mode, user_profile_service, session_management_service,
                   profiles, now, sessions>>
    /\ requests' = [requests EXCEPT ![r].pc = "dispatch"]
    /\ response' = NoResponse

\* Faulty variant: the touch is stamped with the time the invocation began
\* and written as it is
gate_touch_stale(r) ==
    /\ requests[r].pc = "touch"
    /\ response = NoResponse
    /\ UNCHANGED <<is_test_mode, user_profile_service, session_management_service,
                   profiles, now>>
    /\ sessions' = [sessions EXCEPT ![requests[r].user] =
                      IF @.exists
                      THEN [exists |-> TRUE,
                            last_activity_at |-> now - requests[r].age,
                            expires_at |-> now - requests[r].age + SessionTtlTicks]
                      ELSE @]
    /\ requests' = [requests EXCEPT ![r].pc = "dispatch"]
    /\ response' = NoResponse

\* The session gate, second await: update_activity_by_telegram_id(..).await?
gate_touch(r) ==
    /\ requests[r].pc = "touch"
    /\ response = NoResponse
    /\ UNCHANGED <<is_test_mode, user_profile_service, session_management_service,
                   profiles, now>>
    /\ \/ /\ sessions' = [sessions EXCEPT ![requests[r].user] = update_activity(@)]
          /\ requests' = [requests EXCEPT ![r].pc = "dispatch"]
          /\ response' = NoResponse
       \/ /\ UNCHANGED sessions
          /\ requests' = [requests EXCEPT ![r] = Idle]
          /\ response' = Result("message", requests[r].command, requests[r].chat,
                                requests[r].user, "error", "none", requests[r].validate)

\* The command match of an invocation that passed the gate.
gate_dispatch(r) ==
    /\ requests[r].pc = "dispatch"
    /\ response = NoResponse
    /\ UNCHANGED <<is_test_mode, user_profile_service, session_management_service,
                   profiles, now>>
    /\ run_command(requests[r].command, requests[r].chat, requests[r].user,
                   requests[r].validate)
    /\ requests' = [requests EXCEPT ![r] = Idle]

AllIdle == \A r \in DOMAIN requests : requests[r] = Idle

\* send_secure_notification(message, chat_context, is_trading_data)
send_secure_notification(chat, is_trading_data) ==
    /\ response = NoResponse
    /\ AllIdle
    /\ UNCHANGED <<is_test_mode, user_profile_service, session_management_service,
                   profiles, now, sessions, requests>>
    /\ IF is_trading_data /\ is_group_or_channel(chat)
       THEN response' = Result("notification", "secure_notification", chat, NoUser,
                               "blocked", "none", "none")
       ELSE \E sent \in send_message_with_keyboard :
               response' = Result("notification", "secure_notification", chat, NoUser,
                                  IF sent = "failed" THEN "error" ELSE "notified",
                                  IF sent # "sent" THEN "none"
                                  ELSE IF is_group_or_channel(chat)
                                  THEN "group_safe_message"
                                  ELSE IF is_trading_data THEN "trading_data"
                                  ELSE "message",
                                  "none")

\* The setters take &mut self: no invocation is in flight.
set_user_profile_service ==
    /\ AllIdle /\ ~user_profile_service
    /\ response = NoResponse
    /\ user_profile_service' = TRUE
    /\ response' = NoResponse
    /\ UNCHANGED <<is_test_mode, session_management_service, profiles, sessions, now,
                   requests>>

set_session_management_service ==
    /\ AllIdle /\ ~session_management_service
    /\ response = NoResponse
    /\ session_management_service' = TRUE
    /\ response' = NoResponse
    /\ UNCHANGED <<is_test_mode, user_profile_service, profiles, sessions, now,
                   requests>>

\* Time passes.  An invocation is cut off by the runtime long before a
\* session's lifetime has gone by.
Tick ==
    /\ now < MaxTime
    /\ response = NoResponse
    /\ \A r \in DOMAIN requests : requests[r] = Idle \/ requests[r].age < RequestTimeoutTicks
    /\ now' = now + 1
    /\ requests' = [r \in DOMAIN requests |->
                      IF requests[r] = Idle THEN Idle
                      ELSE [requests[r] EXCEPT !.age = @ + 1]]
    /\ response' = NoResponse
    /\ UNCHANGED <<is_test_mode, user_profile_service, session_management_service,
                   profiles, sessions>>

\* The result goes back to the caller of handle_webhook.
respond ==
    /\ response # NoResponse
    /\ response' = NoResponse
    /\ UNCHANGED <<is_test_mode, user_profile_service, session_management_service,
                   profiles, sessions, now, requests>>

(***************************************************************************)
(* Spec: one webhook invocation at a time, every update.                   *)
(***************************************************************************)
otherVars == <<rbac_last, rateVars, vaultVars, distVars>>

(***************************************************************************)
(* AiIntelligenceService::check_ai_rate_limit.  The counter of a user and  *)
(* clock hour lives in the KV store under a key made of both, with a TTL   *)
(* of 3600 s renewed by every write.  The store answers every read and     *)
(* write.                                                                  *)
(***************************************************************************)
RateUsers == {7, 8}
NoRateCall == [user |-> NoUser, hour |-> 0, result |-> "none",
               count_before |-> 0, count_after |-> 0]

\* chrono::Utc::now().format("%Y%m%d%H")
hour_bucket(t) == t \div TicksPerHour

rate_key(user_id, t) == <<user_id, hour_bucket(t)>>

\* kv_store.get(key): the entry, unless it is absent or its TTL has run out;
\* an absent entry and an unparsable one both count as 0.
kv_get_count(kv, key, t) ==
    IF key \in DOMAIN kv /\ t < kv[key].expires_at THEN kv[key].count ELSE 0

\* Faulty variant: a TTL one tick short of the hour
kv_put_count_short_ttl(kv, key, count, t) ==
    [k \in DOMAIN kv \cup {key} |->
        IF k = key THEN [count |-> count, expires_at |-> t + TicksPerHour - 1] ELSE kv[k]]

\* kv_store.put(key, value).expiration_ttl(3600)
kv_put_count(kv, key, count, t) ==
    [k \in DOMAIN kv \cup {key} |->
        IF k = key THEN [count |-> count, expires_at |-> t + TicksPerHour] ELSE kv[k]]

\* Faulty variant: the comparison is > instead of >=
rate_limit_reached_off_by_one(current_count) == current_count > max_ai_calls_per_hour

rate_limit_reached(current_count) == current_count >= max_ai_calls_per_hour

updated_count(current_count) == current_count + 1

\* Faulty variant: the counter is written before the limit is tested
count_after_call_always_incremented(current_count) == updated_count(current_count)

\* The counter a call leaves behind: untouched by the rejecting branch, which
\* returns before the put, and one more after the admitting branch.
count_after_call(current_count) ==
    IF rate_limit_reached(current_count) THEN current_count
    ELSE updated_count(current_count)

\* The calls of the window the log is about, as seen at time t.
window_log(user_id, t) ==
    IF rate_log[user_id].hour = hour_bucket(t) THEN rate_log[user_id]
    ELSE [hour |-> hour_bucket(t), calls |-> 0, admitted |-> 0]

check_ai_rate_limit(user_id) ==
    LET key == rate_key(user_id, rate_clock)
        current_count == kv_get_count(rate_kv, key, rate_clock)
        log == window_log(user_id, rate_clock)
        limited == rate_limit_reached(current_count)
        new_count == count_after_call(current_count)
        kv2 == IF new_count = current_count THEN rate_kv
               ELSE kv_put_count(rate_kv, key, new_count, rate_clock)
    IN /\ log.calls < MaxCallsPerWindow
       /\ rate_kv' = kv2
       /\ rate_log' = [rate_log EXCEPT ![user_id] =
                          [hour |-> log.hour, calls |-> log.calls + 1,
                           admitted |-> log.admitted + (IF limited THEN 0 ELSE 1)]]
       /\ rate_last' = [user |-> user_id, hour |-> hour_bucket(rate_clock),
                        result |-> IF limited THEN "Limited" ELSE "Admitted",
                        count_before |-> current_count,
                        count_after |-> kv_get_count(kv2, key, rate_clock)]
       /\ UNCHANGED <<rate_clock, rate_conc, marketVars, tgVars, rbac_last, vaultVars,
                       distVars>>

(***************************************************************************)
(* The AI enrichment calls of AiIntelligenceService.  A call may end with  *)
(* an error of one of its services before it reaches the AI router; when   *)
(* it reaches it, the user's AI provider is invoked.                       *)
(***************************************************************************)
NoAiCall == [call |-> "none", user |-> NoUser, rate_checked |-> FALSE,
             admitted |-> FALSE, provider_invoked |-> FALSE]

\* analyze_opportunity_with_ai: check_ai_rate_limit(user_id).await? first,
\* then categorization, preferences, config and the router.
analyze_opportunity_with_ai(user_id) ==
    /\ check_ai_rate_limit(user_id)
    /\ \E reached \in BOOLEAN :
          ai_call' = [call |-> "analyze_opportunity_with_ai", user |-> user_id,
                      rate_checked |-> TRUE,
                      admitted |-> ~rate_limit_reached(
                          kv_get_count(rate_kv, rate_key(user_id, rate_clock), rate_clock)),
                      provider_invoked |->
                          reached /\ ~rate_limit_reached(
                              kv_get_count(rate_kv, rate_key(user_id, rate_clock),
                                           rate_clock))]

\* An enrichment call that goes to the router without check_ai_rate_limit.
unmetered_ai_call(name, user_id) ==
    /\ \E reached \in BOOLEAN :
          ai_call' = [call |-> name, user |-> user_id, rate_checked |-> FALSE,
                      admitted |-> FALSE, provider_invoked |-> reached]
    /\ UNCHANGED <<rate_kv, rate_clock, rate_log, rate_last, rate_conc, marketVars, tgVars,
                   rbac_last, vaultVars, distVars>>

assess_portfolio_risk_with_ai(user_id) ==
    unmetered_ai_call("assess_portfolio_risk_with_ai", user_id)

generate_performance_insights(user_id) ==
    unmetered_ai_call("generate_performance_insights", user_id)

optimize_trading_parameters(user_id) ==
    unmetered_ai_call("optimize_trading_parameters", user_id)

RateTick ==
    /\ rate_clock < MaxRateClock
    /\ rate_clock' = rate_clock + 1
    /\ UNCHANGED <<rate_kv, rate_log, rate_last, rate_conc, ai_call, marketVars, tgVars, rbac_last,
                   vaultVars, distVars>>

(***************************************************************************)
(* check_ai_rate_limit in several isolates.  The call awaits the KV get and *)
(* then the KV put; between the two another isolate's call may run.  An     *)
(* isolate holds the key it formatted and the count it read; admitted       *)
(* counts, per key, the calls that returned Ok(()); calls counts the calls  *)
(* begun.                                                                  *)
(***************************************************************************)
MaxConcCalls == 4
RateIsolates == {1, 2}
IdleIsolate == [pc |-> "idle", key |-> <<NoUser, 0>>, current_count |-> 0]
RateKeys == RateUsers \X (0 .. hour_bucket(MaxRateClock))
NoRateConc == [isolates |-> [i \in RateIsolates |-> IdleIsolate],
               admitted |-> [k \in RateKeys |-> 0],
               calls |-> 0]

\* rate_key is formatted and kv_store.get(&rate_key).text().await returns
check_ai_rate_limit_get(i, user_id) ==
    LET key == rate_key(user_id, rate_clock) IN
    /\ rate_conc.isolates[i].pc = "idle"
    /\ rate_conc.calls < MaxConcCalls
    /\ rate_conc' = [rate_conc EXCEPT
          !.isolates[i] = [pc |-> "got", key |-> key,
                           current_count |-> kv_get_count(rate_kv, key, rate_clock)],
          !.calls = @ + 1]
    /\ UNCHANGED <<rate_kv, rate_clock, rate_log, rate_last, ai_call, marketVars,
                   tgVars, rbac_last, vaultVars, distVars>>

\* the comparison with max_ai_calls_per_hour, and the put with its TTL
check_ai_rate_limit_put(i) ==
    LET isolate == rate_conc.isolates[i]
        current_count == isolate.current_count
        limited == rate_limit_reached(current_count)
    IN /\ isolate.pc = "got"
       /\ rate_kv' = IF limited THEN rate_kv
                     ELSE kv_put_count(rate_kv, isolate.key,
                                       updated_count(current_count), rate_clock)
       /\ rate_conc' = [rate_conc EXCEPT
             !.isolates[i] = IdleIsolate,
             !.admitted[isolate.key] = @ + (IF limited THEN 0 ELSE 1)]
       /\ UNCHANGED <<rate_clock, rate_log, rate_last, ai_call, marketVars,
                      tgVars, rbac_last, vaultVars, distVars>>

(***************************************************************************)
(* AiIntegrationService: the AI key records of a user and the index that   *)
(* lists them.  Every record under "ai_key:" was made by                   *)
(* UserApiKey::new_ai_key, for which is_ai_key() holds.  The store answers *)
(* every read and write.                                                   *)
(***************************************************************************)
VaultUsers == {1, 2}
ApiKeyProvider == {"OpenAI", "Anthropic", "Custom", "Exchange"}
supported_providers == {"OpenAI", "Anthropic", "Custom"}
NoVaultCall == [op |-> "none", user |-> NoUser, provider |-> "none", result |-> "none",
                count_before |-> 0, held |-> FALSE, changed |-> FALSE]

\* Faulty variant: every provider passes the check
is_provider_supported_any(provider) == provider \in ApiKeyProvider

is_provider_supported(provider) == provider \in supported_providers

RECURSIVE retain(_, _)
\* key_ids.retain(|id| id != api_key_id)
retain(key_ids, api_key_id) ==
    IF key_ids = << >> THEN << >>
    ELSE IF Head(key_ids) = api_key_id THEN retain(Tail(key_ids), api_key_id)
    ELSE <<Head(key_ids)>> \o retain(Tail(key_ids), api_key_id)

contains(key_ids, api_key_id) == \E i \in 1 .. Len(key_ids) : key_ids[i] = api_key_id

RECURSIVE existing_keys_stop_at_missing(_, _, _)
\* Faulty variant: the first missing record ends the listing
existing_keys_stop_at_missing(records, user_id, key_ids) ==
    IF key_ids = << >> THEN << >>
    ELSE IF <<user_id, Head(key_ids)>> \notin records THEN << >>
    ELSE <<Head(key_ids)>> \o existing_keys_stop_at_missing(records, user_id, Tail(key_ids))

RECURSIVE existing_keys(_, _, _)
\* The records of the ids of an index, in index order, skipping missing ones.
existing_keys(records, user_id, key_ids) ==
    IF key_ids = << >> THEN << >>
    ELSE (IF <<user_id, Head(key_ids)>> \in records THEN <<Head(key_ids)>> ELSE << >>)
         \o existing_keys(records, user_id, Tail(key_ids))

get_user_ai_keys(user_id) == existing_keys(ai_key_records, user_id, ai_key_index[user_id])

\* The index of a user after update_user_ai_key_index(user_id, api_key_id, add).
update_user_ai_key_index(index, user_id, api_key_id, add) ==
    [index EXCEPT ![user_id] =
        IF add THEN (IF contains(@, api_key_id) THEN @ ELSE Append(@, api_key_id))
        ELSE retain(@, api_key_id)]

\* Faulty variant: the comparison is > instead of >=
max_keys_reached_off_by_one(ai_key_count) == ai_key_count > max_ai_keys_per_user

max_keys_reached(ai_key_count) == ai_key_count >= max_ai_keys_per_user

store_ai_credentials(user_id, provider) ==
    LET ai_key_count == Len(get_user_ai_keys(user_id))
        api_key_id == next_api_key_id
        result == IF max_keys_reached(ai_key_count) THEN "limit_reached"
                  ELSE IF ~is_provider_supported(provider) THEN "not_supported"
                  ELSE "ok"
        records2 == IF result = "ok" THEN ai_key_records \cup {<<user_id, api_key_id>>}
                    ELSE ai_key_records
        index2 == IF result = "ok"
                  THEN update_user_ai_key_index(ai_key_index, user_id, api_key_id, TRUE)
                  ELSE ai_key_index
    IN /\ next_api_key_id <= MaxApiKeyIds
       /\ ai_key_records' = records2
       /\ ai_key_index' = index2
       /\ next_api_key_id' = IF result = "ok" THEN next_api_key_id + 1 ELSE next_api_key_id
       /\ vault_last' = [op |-> "store", user |-> user_id, provider |-> provider,
                         result |-> result,
                         count_before |-> ai_key_count, held |-> FALSE,
                         changed |-> (records2 # ai_key_records \/ index2 # ai_key_index)]
       /\ UNCHANGED <<tgVars, rbac_last, rateVars, distVars>>

remove_ai_credentials(user_id, api_key_id) ==
    LET records2 == ai_key_records \ {<<user_id, api_key_id>>}
        index2 == update_user_ai_key_index(ai_key_index, user_id, api_key_id, FALSE)
    IN /\ ai_key_records' = records2
       /\ ai_key_index' = index2
       /\ vault_last' = [op |-> "remove", user |-> user_id, provider |-> "none",
                         result |-> "ok",
                         count_before |-> Len(get_user_ai_keys(user_id)),
                         held |-> (contains(ai_key_index[user_id], api_key_id)
                                   \/ <<user_id, api_key_id>> \in ai_key_records),
                         changed |-> (records2 # ai_key_records \/ index2 # ai_key_index)]
       /\ UNCHANGED <<next_api_key_id, tgVars, rbac_last, rateVars, distVars>>

(***************************************************************************)
(* The same calls running in several isolates at once.  A call is          *)
(* suspended at each KV operation, every KV operation may fail, and a      *)
(* failure ends the call with Err at that point (the `?` after each        *)
(* await).  The reads of get_user_ai_keys are taken as one step.           *)
(***************************************************************************)
VaultProcs == {1, 2}
VaultConcUsers == {1}
MaxConcApiKeyIds == 3
KvOutcome == {"ok", "err"}
NoVaultOp == [pc |-> "idle", op |-> "none", user |-> NoUser, id |-> 0, key_ids |-> << >>]
NoVaultHist == [stored_ok |-> {}, remove_begun |-> {}, dangling_seen |-> {}]

\* The Vec that update_user_ai_key_index writes back, from the Vec it read.
updated_key_ids(key_ids, api_key_id, add) ==
    IF add THEN (IF contains(key_ids, api_key_id) THEN key_ids
                 ELSE Append(key_ids, api_key_id))
    ELSE retain(key_ids, api_key_id)

\* store_ai_credentials up to the put of the record: the cap check over
\* get_user_ai_keys, the provider check, the new uuid.
store_begin(p, user_id, provider) ==
    /\ vault_ops[p].pc = "idle"
    /\ next_api_key_id <= MaxConcApiKeyIds
    /\ \E read \in KvOutcome :
          IF \/ read = "err"
             \/ max_keys_reached(Len(get_user_ai_keys(user_id)))
             \/ ~is_provider_supported(provider)
          THEN UNCHANGED <<vault_ops, next_api_key_id>>
          ELSE /\ vault_ops' = [vault_ops EXCEPT ![p] =
                                  [pc |-> "put_record", op |-> "store", user |-> user_id,
                                   id |-> next_api_key_id, key_ids |-> << >>]]
               /\ next_api_key_id' = next_api_key_id + 1
    /\ UNCHANGED <<ai_key_records, ai_key_index, vault_last, vault_hist,
                   tgVars, rbac_last, rateVars, distVars,
                   vault_list, cycleVars>>

\* kv_store.put("ai_key:{user}:{api_key_id}", ..).execute().await
store_put_record(p) ==
    /\ vault_ops[p].pc = "put_record"
    /\ \E put \in KvOutcome :
          IF put = "ok"
          THEN /\ ai_key_records' =
                     ai_key_records \cup {<<vault_ops[p].user, vault_ops[p].id>>}
               /\ vault_ops' = [vault_ops EXCEPT ![p].pc = "index_get"]
          ELSE /\ vault_ops' = [vault_ops EXCEPT ![p] = NoVaultOp]
               /\ UNCHANGED ai_key_records
    /\ UNCHANGED <<ai_key_index, next_api_key_id, vault_last, vault_hist,
                   tgVars, rbac_last, rateVars, distVars,
                   vault_list, cycleVars>>

\* remove_ai_credentials up to the index update: kv_store.delete(record).
\* An id is a fresh uuid, known to callers only once its store has returned
\* it; the key need not be there any more.
remove_begin(p, user_id, api_key_id) ==
    /\ vault_ops[p].pc = "idle"
    /\ <<user_id, api_key_id>> \in vault_hist.stored_ok
    /\ \E delete \in KvOutcome :
          IF delete = "ok"
          THEN /\ ai_key_records' = ai_key_records \ {<<user_id, api_key_id>>}
               /\ vault_ops' = [vault_ops EXCEPT ![p] =
                                  [pc |-> "index_get", op |-> "remove", user |-> user_id,
                                   id |-> api_key_id, key_ids |-> << >>]]
               /\ vault_hist' = [vault_hist EXCEPT
                                   !.remove_begun = @ \cup {<<user_id, api_key_id>>}]
          ELSE UNCHANGED <<ai_key_records, vault_ops, vault_hist>>
    /\ UNCHANGED <<ai_key_index, next_api_key_id, vault_last,
                   tgVars, rbac_last, rateVars, distVars,
                   vault_list, cycleVars>>

\* update_user_ai_key_index, the read: kv_store.get("ai_key_index:{user}")
index_get(p) ==
    /\ vault_ops[p].pc = "index_get"
    /\ \E read \in KvOutcome :
          IF read = "ok"
          THEN vault_ops' = [vault_ops EXCEPT
                               ![p].pc = "index_put",
                               ![p].key_ids = ai_key_index[vault_ops[p].user]]
          ELSE vault_ops' = [vault_ops EXCEPT ![p] = NoVaultOp]
    /\ UNCHANGED <<ai_key_records, ai_key_index, next_api_key_id, vault_last, vault_hist,
                   tgVars, rbac_last, rateVars, distVars,
                   vault_list, cycleVars>>

\* update_user_ai_key_index, the write back, and the return of the call.
index_put(p) ==
    /\ vault_ops[p].pc = "index_put"
    /\ \E put \in KvOutcome :
          IF put = "ok"
          THEN /\ ai_key_index' =
                     [ai_key_index EXCEPT ![vault_ops[p].user] =
                         updated_key_ids(vault_ops[p].key_ids, vault_ops[p].id,
                                         vault_ops[p].op = "store")]
               /\ vault_hist' =
                     IF vault_ops[p].op = "store"
                     THEN [vault_hist EXCEPT
                             !.stored_ok = @ \cup {<<vault_ops[p].user, vault_ops[p].id>>}]
                     ELSE vault_hist
          ELSE UNCHANGED <<ai_key_index, vault_hist>>
    /\ vault_ops' = [vault_ops EXCEPT ![p] = NoVaultOp]
    /\ UNCHANGED <<ai_key_records, next_api_key_id, vault_last,
                   tgVars, rbac_last, rateVars, distVars,
                   vault_list, cycleVars>>

\* get_user_ai_keys by a reader, the read of the index.
read_index(p, user_id) ==
    /\ vault_ops[p].pc = "idle"
    /\ vault_ops' = [vault_ops EXCEPT ![p] =
                       [pc |-> "read_records", op |-> "read", user |-> user_id,
                        id |-> 0, key_ids |-> ai_key_index[user_id]]]
    /\ UNCHANGED <<ai_key_records, ai_key_index, next_api_key_id, vault_last, vault_hist,
                   tgVars, rbac_last, rateVars, distVars,
                   vault_list, cycleVars>>

\* get_user_ai_keys by a reader, the reads of the records of the index: an
\* id whose record is missing is skipped.
read_records(p) ==
    /\ vault_ops[p].pc = "read_records"
    /\ vault_hist' = [vault_hist EXCEPT !.dangling_seen = @ \cup
           {<<vault_ops[p].user, vault_ops[p].key_ids[i]>> :
               i \in {j \in 1 .. Len(vault_ops[p].key_ids) :
                        <<vault_ops[p].user, vault_ops[p].key_ids[j]>>
                            \notin ai_key_records}}]
    /\ vault_ops' = [vault_ops EXCEPT ![p] = NoVaultOp]
    /\ UNCHANGED <<ai_key_records, ai_key_index, next_api_key_id, vault_last,
                   tgVars, rbac_last, rateVars, distVars,
                   vault_list, cycleVars>>

AllVaultIdle == \A p \in VaultProcs : vault_ops[p].pc = "idle"

(***************************************************************************)
(* Credential encryption.  A string is the sequence of its bytes (0..255), *)
(* a base64 text the sequence of its characters: 0..63 for the characters  *)
(* of the standard alphabet, Base64Pad for '=', Base64Other for any        *)
(* character outside the alphabet.                                         *)
(***************************************************************************)
Bytes == 0 .. 255
Base64Pad == 64
Base64Other == 65
Base64Chars == 0 .. 65

Ok(value) == [ok |-> TRUE, value |-> value]
Err(error) == [ok |-> FALSE, error |-> error]

RECURSIVE xor_bits(_, _, _)
xor_bits(a, b, width) ==
    IF width = 0 THEN 0
    ELSE (((a % 2) + (b % 2)) % 2) + 2 * xor_bits(a \div 2, b \div 2, width - 1)

\* byte ^ key_byte on u8
byte_xor(a, b) == xor_bits(a, b, 8)

RECURSIVE base64_encode_no_pad(_)
\* Faulty variant: the encoder of an engine without padding.
base64_encode_no_pad(bytes) ==
    IF Len(bytes) = 0 THEN << >>
    ELSE IF Len(bytes) = 1
    THEN <<bytes[1] \div 4, (bytes[1] % 4) * 16>>
    ELSE IF Len(bytes) = 2
    THEN <<bytes[1] \div 4, (bytes[1] % 4) * 16 + bytes[2] \div 16,
           (bytes[2] % 16) * 4>>
    ELSE <<bytes[1] \div 4, (bytes[1] % 4) * 16 + bytes[2] \div 16,
           (bytes[2] % 16) * 4 + bytes[3] \div 64, bytes[3] % 64>>
         \o base64_encode_no_pad(SubSeq(bytes, 4, Len(bytes)))

RECURSIVE base64_encode(_)
\* general_purpose::STANDARD.encode
base64_encode(bytes) ==
    IF Len(bytes) = 0 THEN << >>
    ELSE IF Len(bytes) = 1
    THEN <<bytes[1] \div 4, (bytes[1] % 4) * 16, Base64Pad, Base64Pad>>
    ELSE IF Len(bytes) = 2
    THEN <<bytes[1] \div 4, (bytes[1] % 4) * 16 + bytes[2] \div 16,
           (bytes[2] % 16) * 4, Base64Pad>>
    ELSE <<bytes[1] \div 4, (bytes[1] % 4) * 16 + bytes[2] \div 16,
           (bytes[2] % 16) * 4 + bytes[3] \div 64, bytes[3] % 64>>
         \o base64_encode(SubSeq(bytes, 4, Len(bytes)))

is_base64_symbol(c) == c \in 0 .. 63

\* The bytes of one group of four characters, or "invalid".  Padding is
\* allowed in the last group only, and the bits of the last symbol that
\* fall outside the bytes must be zero.
base64_decode_group(g, last) ==
    IF is_base64_symbol(g[1]) /\ is_base64_symbol(g[2])
       /\ is_base64_symbol(g[3]) /\ is_base64_symbol(g[4])
    THEN <<g[1] * 4 + g[2] \div 16, (g[2] % 16) * 16 + g[3] \div 4,
           (g[3] % 4) * 64 + g[4]>>
    ELSE IF last /\ is_base64_symbol(g[1]) /\ is_base64_symbol(g[2])
            /\ is_base64_symbol(g[3]) /\ g[4] = Base64Pad /\ g[3] % 4 = 0
    THEN <<g[1] * 4 + g[2] \div 16, (g[2] % 16) * 16 + g[3] \div 4>>
    ELSE IF last /\ is_base64_symbol(g[1]) /\ is_base64_symbol(g[2])
            /\ g[3] = Base64Pad /\ g[4] = Base64Pad /\ g[2] % 16 = 0
    THEN <<g[1] * 4 + g[2] \div 16>>
    ELSE "invalid"

RECURSIVE base64_decode(_)
\* general_purpose::STANDARD.decode: canonical padding required
base64_decode(text) ==
    IF Len(text) = 0 THEN Ok(<< >>)
    ELSE IF Len(text) < 4 THEN Err("DecodeError")
    ELSE LET group == base64_decode_group(SubSeq(text, 1, 4), Len(text) = 4)
             rest == base64_decode(SubSeq(text, 5, Len(text)))
         IN IF group = "invalid" \/ ~rest.ok THEN Err("DecodeError")
            ELSE Ok(group \o rest.value)

is_continuation(bytes, i, low, high) ==
    i <= Len(bytes) /\ bytes[i] >= low /\ bytes[i] <= high

RECURSIVE utf8_valid(_)
\* String::from_utf8 accepts exactly the well-formed UTF-8 byte sequences
utf8_valid(bytes) ==
    IF Len(bytes) = 0 THEN TRUE
    ELSE LET b == bytes[1]
             c(i, low, high) == is_continuation(bytes, i, low, high)
             len == IF b <= 127 THEN 1
                    ELSE IF b >= 194 /\ b <= 223 /\ c(2, 128, 191) THEN 2
                    ELSE IF b = 224 /\ c(2, 160, 191) /\ c(3, 128, 191) THEN 3
                    ELSE IF b >= 225 /\ b <= 236 /\ c(2, 128, 191) /\ c(3, 128, 191) THEN 3
                    ELSE IF b = 237 /\ c(2, 128, 159) /\ c(3, 128, 191) THEN 3
                    ELSE IF b >= 238 /\ b <= 239 /\ c(2, 128, 191) /\ c(3, 128, 191) THEN 3
                    ELSE IF b = 240 /\ c(2, 144, 191) /\ c(3, 128, 191) /\ c(4, 128, 191)
                    THEN 4
                    ELSE IF b >= 241 /\ b <= 243 /\ c(2, 128, 191) /\ c(3, 128, 191)
                            /\ c(4, 128, 191)
                    THEN 4
                    ELSE IF b = 244 /\ c(2, 128, 143) /\ c(3, 128, 191) /\ c(4, 128, 191)
                    THEN 4
                    ELSE 0
         IN len > 0 /\ utf8_valid(SubSeq(bytes, len + 1, Len(bytes)))

\* bytes[i] ^ key_bytes[i % key_bytes.len()], with i counted from 0
xor_with_key(bytes, key_bytes) ==
    [i \in 1 .. Len(bytes) |-> byte_xor(bytes[i], key_bytes[((i - 1) % Len(key_bytes)) + 1])]

\* AiIntegrationService::encrypt_string.  With an empty key and a non-empty
\* plaintext the remainder by key_bytes.len() panics.
ai_encrypt_string(encryption_key, plaintext) ==
    IF Len(plaintext) > 0 /\ Len(encryption_key) = 0 THEN Err("panic")
    ELSE Ok(base64_encode(xor_with_key(plaintext, encryption_key)))

\* AiIntegrationService::decrypt_string
ai_decrypt_string(encryption_key, ciphertext) ==
    LET encrypted == base64_decode(ciphertext)
    IN IF ~encrypted.ok THEN Err("parse_error")
       ELSE IF Len(encrypted.value) > 0 /\ Len(encryption_key) = 0 THEN Err("panic")
       ELSE LET decrypted == xor_with_key(encrypted.value, encryption_key)
            IN IF utf8_valid(decrypted) THEN Ok(decrypted) ELSE Err("parse_error")

(***************************************************************************)
(* UserExchangeApiService::encrypt_string and decrypt_string: AES-256-GCM  *)
(* under the SHA-256 of the encryption key, a nonce of NonceLen bytes in   *)
(* front of the ciphertext and its tag, the whole in base64.  SHA-256 and  *)
(* AES-GCM are library code; they are kept by their structure: a digest    *)
(* that tells the keys of the model apart, a keystream XORed onto the      *)
(* plaintext, and a tag of 16 bytes over key, nonce and ciphertext that    *)
(* tells apart any two ciphertexts of the model.                           *)
(***************************************************************************)
NonceLen == 12

RECURSIVE byte_sum(_)
byte_sum(bytes) ==
    IF Len(bytes) = 0 THEN 0 ELSE (Head(bytes) + byte_sum(Tail(bytes))) % 256

zero_padded(bytes, len) == [i \in 1 .. len |-> IF i <= Len(bytes) THEN bytes[i] ELSE 0]

\* Sha256::new().update(key).finalize(): 32 bytes
sha256(bytes) == zero_padded(<<Len(bytes) % 256>> \o bytes, 32)

gcm_keystream(key_bytes, nonce, i) ==
    (byte_sum(key_bytes) + byte_sum(nonce) + 17 * i) % 256

gcm_xor(key_bytes, nonce, bytes) ==
    [i \in 1 .. Len(bytes) |-> byte_xor(bytes[i], gcm_keystream(key_bytes, nonce, i))]

gcm_tag(key_bytes, nonce, ciphertext) ==
    LET over == zero_padded(<<Len(ciphertext) % 256>> \o ciphertext, NonceLen)
    IN [j \in 1 .. 16 |-> IF j <= NonceLen THEN byte_xor(nonce[j], over[j])
                          ELSE key_bytes[j - NonceLen]]

\* cipher.encrypt(&nonce, plaintext): the ciphertext followed by its tag
gcm_encrypt(key_bytes, nonce, plaintext) ==
    LET ciphertext == gcm_xor(key_bytes, nonce, plaintext)
    IN ciphertext \o gcm_tag(key_bytes, nonce, ciphertext)

\* cipher.decrypt(nonce, ciphertext): an error unless the tag is the one of
\* the ciphertext under this key and nonce
gcm_decrypt(key_bytes, nonce, data) ==
    IF Len(data) < 16 THEN Err("aead::Error")
    ELSE LET ciphertext == SubSeq(data, 1, Len(data) - 16)
             tag == SubSeq(data, Len(data) - 15, Len(data))
         IN IF tag # gcm_tag(key_bytes, nonce, ciphertext) THEN Err("aead::Error")
            ELSE Ok(gcm_xor(key_bytes, nonce, ciphertext))

\* UserExchangeApiService::encrypt_string, with the nonce that
\* generate_nonce(&mut OsRng) drew
exchange_encrypt_string(encryption_key, nonce, plaintext) ==
    Ok(base64_encode(nonce \o gcm_encrypt(sha256(encryption_key), nonce, plaintext)))

\* UserExchangeApiService::decrypt_string
exchange_decrypt_string(encryption_key, encrypted) ==
    LET encrypted_data == base64_decode(encrypted)
    IN IF ~encrypted_data.ok THEN Err("parse_error")
       ELSE IF Len(encrypted_data.value) < NonceLen THEN Err("parse_error")
       ELSE LET nonce == SubSeq(encrypted_data.value, 1, NonceLen)
                ciphertext == SubSeq(encrypted_data.value, NonceLen + 1,
                                     Len(encrypted_data.value))
                plaintext == gcm_decrypt(sha256(encryption_key), nonce, ciphertext)
            IN IF ~plaintext.ok THEN Err("parse_error")
               ELSE IF utf8_valid(plaintext.value) THEN Ok(plaintext.value)
               ELSE Err("parse_error")

(***************************************************************************)
(* A string goes through encrypt_string of one of the two services, the    *)
(* text that came out is kept or changed in one character, and goes        *)
(* through decrypt_string of the same service under the same key.          *)
(***************************************************************************)
MaxPlaintextLen == 3
\* The keys: "", "k", "k1" and "é".
EncryptionKeys == {<< >>, <<107>>, <<107, 49>>, <<195, 169>>}
\* The bytes of the plaintexts: 'a', 'k' and the two bytes of "é".
PlaintextBytes == {97, 107, 195, 169}
\* &str: the well-formed UTF-8 byte sequences
Plaintexts ==
    {p \in UNION {[1 .. n -> PlaintextBytes] : n \in 0 .. MaxPlaintextLen} :
        utf8_valid(p)}
Nonces == {[i \in 1 .. NonceLen |-> 0], [i \in 1 .. NonceLen |-> (21 * i) % 256]}
\* What a character of the text is changed into.
TamperChars == {0, 1, 32, 63, Base64Pad, Base64Other}

NoCryptResult == Err("none")
NoCrypt == [pc |-> "idle", cipher |-> "none", encryption_key |-> << >>,
            plaintext |-> << >>, encrypted |-> NoCryptResult, text |-> << >>,
            tampered |-> FALSE, decrypted |-> NoCryptResult]

encrypted_crypt(cipher, encryption_key, plaintext, encrypted) ==
    [pc |-> IF encrypted.ok THEN "encrypted" ELSE "failed", cipher |-> cipher,
     encryption_key |-> encryption_key, plaintext |-> plaintext,
     encrypted |-> encrypted, text |-> IF encrypted.ok THEN encrypted.value ELSE << >>,
     tampered |-> FALSE, decrypted |-> NoCryptResult]

crypt_unchanged ==
    UNCHANGED <<ai_key_records, ai_key_index, next_api_key_id, vault_last, vault_ops,
                vault_hist, vault_list, ai_key_data, vault_given, vault_validate,
                tgVars, rbac_last, rateVars, distVars>>

call_ai_encrypt_string(encryption_key, plaintext) ==
    /\ crypt.pc = "idle"
    /\ crypt' = encrypted_crypt("xor", encryption_key, plaintext,
                                ai_encrypt_string(encryption_key, plaintext))
    /\ crypt_unchanged

call_exchange_encrypt_string(encryption_key, nonce, plaintext) ==
    /\ crypt.pc = "idle"
    /\ crypt' = encrypted_crypt("aes_gcm", encryption_key, plaintext,
                                exchange_encrypt_string(encryption_key, nonce, plaintext))
    /\ crypt_unchanged

\* One character of the stored text is replaced by another.
tamper_ciphertext(i, c) ==
    /\ crypt.pc = "encrypted"
    /\ ~crypt.tampered
    /\ i \in 1 .. Len(crypt.text)
    /\ c # crypt.text[i]
    /\ crypt' = [crypt EXCEPT !.text = [crypt.text EXCEPT ![i] = c], !.tampered = TRUE]
    /\ crypt_unchanged

call_decrypt_string ==
    /\ crypt.pc = "encrypted"
    /\ crypt' = [crypt EXCEPT
                    !.pc = "decrypted",
                    !.decrypted =
                        IF crypt.cipher = "xor"
                        THEN ai_decrypt_string(crypt.encryption_key, crypt.text)
                        ELSE exchange_decrypt_string(crypt.encryption_key, crypt.text)]
    /\ crypt_unchanged

\* The call is over; the service holds no state of it.
crypt_return ==
    /\ crypt.pc \in {"failed", "decrypted"}
    /\ crypt' = NoCrypt
    /\ crypt_unchanged

(***************************************************************************)
(* get_user_ai_keys as one call.  The read of the index may fail, which    *)
(* ends the call with Err; the read of each record of the index may fail   *)
(* or return text that does not parse, and such an id is passed over.      *)
(***************************************************************************)
NoVaultList == [user |-> NoUser, index_read |-> "none", key_ids |-> << >>,
                present |-> {}, unreadable |-> {}, result |-> "none", keys |-> << >>]

\* The ids of a Vec of key ids.
ids_of(key_ids) == {key_ids[i] : i \in 1 .. Len(key_ids)}

\* The records of a user that a read returns as Ok(Some(data)) with data a
\* UserApiKey.
readable_records(user_id, unreadable) ==
    ai_key_records \ {<<user_id, k>> : k \in unreadable}

call_get_user_ai_keys(p, user_id) ==
    /\ vault_ops[p].pc = "idle"
    /\ \E index_read \in KvOutcome, unreadable \in SUBSET ids_of(ai_key_index[user_id]) :
          vault_list' =
             IF index_read = "err"
             THEN [NoVaultList EXCEPT !.user = user_id, !.index_read = "err",
                                      !.result = "err"]
             ELSE [user |-> user_id, index_read |-> "ok",
                   key_ids |-> ai_key_index[user_id],
                   present |-> {k \in ids_of(ai_key_index[user_id]) :
                                   <<user_id, k>> \in ai_key_records},
                   unreadable |-> unreadable,
                   result |-> "ok",
                   keys |-> existing_keys(readable_records(user_id, unreadable),
                                          user_id, ai_key_index[user_id])]
    /\ UNCHANGED <<ai_key_records, ai_key_index, next_api_key_id, vault_last,
                   vault_ops, vault_hist, cycleVars, tgVars, rbac_last, rateVars,
                   distVars>>

(***************************************************************************)
(* The content of the records: what a store writes, and what the calls     *)
(* that decrypt a key read back.  uuid::Uuid::new_v4() is drawn twice per  *)
(* store, for the record key and inside UserApiKey::new_ai_key; the uuids  *)
(* of record keys are numbered 1 .. MaxApiKeyIds and those of the keys     *)
(* themselves after them.                                                  *)
(***************************************************************************)
MaxCycleApiKeyIds == 2
service_encryption_key == <<107, 49>>
ApiKeys == {<<115, 107>>, <<115, 107, 45, 195, 169>>}
NoVaultValidate == [op |-> "none", user |-> NoUser, api_key_id |-> 0,
                    stored_id_listed |-> FALSE, result |-> "none",
                    decrypted |-> << >>, provider |-> "none",
                    key_provider |-> "none",
                    metadata_base_url |-> [kind |-> "none", text |-> ""],
                    base_url |-> "none"]

\* The "base_url" member of the metadata of a key: absent, a JSON value
\* that is no string, the empty string, or a URL.
MetadataBaseUrls ==
    {[kind |-> "absent", text |-> ""], [kind |-> "number", text |-> ""],
     [kind |-> "string", text |-> ""],
     [kind |-> "string", text |-> "https://custom-ai.example.com"]}

\* metadata.get("base_url").and_then(|v| v.as_str()).map(|s| s.to_string())
metadata_base_url(member) ==
    IF member.kind = "string" THEN Ok(member.text) ELSE Err("None")

new_key_uuid(api_key_id) == MaxApiKeyIds + api_key_id

\* UserApiKey::new_ai_key(user_id, provider, encrypted_key, metadata): the
\* key takes a uuid of its own as key_id.
new_ai_key(key_id, user_id, provider, encrypted_key, base_url) ==
    [key_id |-> key_id, user_id |-> user_id, provider |-> provider,
     encrypted_key |-> encrypted_key, base_url |-> base_url,
     is_active |-> TRUE]

\* store_ai_credentials with the key it encrypts and the record it writes.
store_ai_credentials_with_key(user_id, provider, api_key, base_url) ==
    /\ next_api_key_id <= MaxCycleApiKeyIds
    /\ store_ai_credentials(user_id, provider)
    /\ LET encrypted_key == ai_encrypt_string(service_encryption_key, api_key)
           api_key_id == next_api_key_id
       IN IF vault_last'.result = "ok"
          THEN /\ ai_key_data' = ai_key_data \cup
                     {[api_key_id |-> api_key_id,
                       key |-> new_ai_key(new_key_uuid(api_key_id), user_id, provider,
                                          encrypted_key.value, base_url)]}
               /\ vault_given' = vault_given \cup
                     {[user |-> user_id, api_key_id |-> api_key_id,
                       provider |-> provider, api_key |-> api_key]}
          ELSE UNCHANGED <<ai_key_data, vault_given>>
    /\ UNCHANGED <<vault_ops, vault_hist, vault_list, vault_validate, crypt>>

\* The UserApiKey stored under ai_key:{user}:{api_key_id}
stored_key(api_key_id) == (CHOOSE d \in ai_key_data : d.api_key_id = api_key_id).key

\* The Vec<UserApiKey> that get_user_ai_keys returns
user_ai_keys(user_id) ==
    [i \in 1 .. Len(get_user_ai_keys(user_id)) |-> stored_key(get_user_ai_keys(user_id)[i])]

\* create_ai_provider_from_key: the provider built, as its variant and its
\* base_url ("default" for an OpenAI or Anthropic provider without one).
create_ai_provider_from_key(ai_key, decrypted_key) ==
    LET base_url == metadata_base_url(ai_key.base_url)
    IN IF ai_key.provider \in {"OpenAI", "Anthropic"}
       THEN Ok([variant |-> ai_key.provider,
                base_url |-> IF base_url.ok THEN base_url.value ELSE "default"])
       ELSE IF ai_key.provider = "Custom"
       THEN (IF base_url.ok THEN Ok([variant |-> "Custom", base_url |-> base_url.value])
             ELSE Err("configuration_error"))
       ELSE Err("configuration_error")

\* The result of decrypting a found key and building its provider.
decrypt_and_create(op, user_id, api_key_id, listed, found, connectivity) ==
    IF found = << >>
    THEN [NoVaultValidate EXCEPT !.op = op, !.user = user_id, !.api_key_id = api_key_id,
                                 !.stored_id_listed = listed, !.result = "not_found"]
    ELSE LET ai_key == found[1]
             decrypted_key == ai_decrypt_string(service_encryption_key,
                                                ai_key.encrypted_key)
             provider == create_ai_provider_from_key(ai_key, decrypted_key)
         IN [op |-> op, user |-> user_id, api_key_id |-> api_key_id,
             stored_id_listed |-> listed,
             result |-> IF ~decrypted_key.ok THEN decrypted_key.error
                        ELSE IF ~provider.ok THEN provider.error
                        \* a request to the empty URL cannot be sent
                        ELSE IF connectivity = "err" \/ provider.value.base_url = ""
                        THEN "validation_error"
                        ELSE "ok",
             decrypted |-> IF decrypted_key.ok THEN decrypted_key.value ELSE << >>,
             provider |-> IF decrypted_key.ok /\ provider.ok THEN provider.value.variant
                          ELSE "none",
             key_provider |-> ai_key.provider,
             metadata_base_url |-> ai_key.base_url,
             base_url |-> IF decrypted_key.ok /\ provider.ok THEN provider.value.base_url
                          ELSE "none"]

\* validate_and_test_credentials: the key is looked for by
\* key.key_id == api_key_id among the keys listed.
validate_and_test_credentials(user_id, api_key_id) ==
    /\ \E connectivity \in KvOutcome :
          vault_validate' =
             decrypt_and_create("validate", user_id, api_key_id,
                 contains(get_user_ai_keys(user_id), api_key_id),
                 SelectSeq(user_ai_keys(user_id), LAMBDA key : key.key_id = api_key_id),
                 connectivity)
    /\ UNCHANGED <<ai_key_records, ai_key_index, next_api_key_id, vault_last,
                   vault_ops, vault_hist, vault_list, ai_key_data, vault_given, crypt,
                   tgVars, rbac_last, rateVars, distVars>>

\* get_user_ai_provider: the first active key of the provider asked for.
get_user_ai_provider(user_id, provider_type) ==
    /\ vault_validate' =
          decrypt_and_create("get_provider", user_id, 0, FALSE,
              SelectSeq(user_ai_keys(user_id),
                        LAMBDA key : key.provider = provider_type /\ key.is_active),
              "ok")
    /\ UNCHANGED <<ai_key_records, ai_key_index, next_api_key_id, vault_last,
                   vault_ops, vault_hist, vault_list, ai_key_data, vault_given, crypt,
                   tgVars, rbac_last, rateVars, distVars>>

(***************************************************************************)
(* The opportunity fan-out.  The engine delivers a submitted opportunity   *)
(* to each recipient through NotificationSender; per (opportunity,         *)
(* recipient) it consults the idempotency marker before the send and       *)
(* writes it on success.                                                   *)
(***************************************************************************)
Opportunities == {1, 2}
Recipients == {1, 2}
Deliveries == Opportunities \X Recipients
NoDelivery == [sent |-> 0, delivered |-> 0, failed |-> 0, skipped |-> 0]

\* send_message_to_chat: through send_message_with_keyboard without keyboard.
send_message_to_chat == send_message_with_keyboard

\* Faulty variant: a successful send is reported as Ok(false)
send_opportunity_notification_never_true(send_result) == FALSE

\* Ok(true) when the send returned Ok, Ok(false) when it returned Err.
send_opportunity_notification(send_result) == send_result # "failed"

already_distributed(opportunity_id, recipient_id) ==
    <<opportunity_id, recipient_id>> \in dist_idem

submit_opportunity(opportunity_id) ==
    /\ dist_submissions[opportunity_id] < MaxSubmissions
    /\ dist_submissions' = [dist_submissions EXCEPT ![opportunity_id] = @ + 1]
    /\ dist_queue' = [p \in Deliveries |->
                         IF p[1] = opportunity_id THEN dist_queue[p] + 1 ELSE dist_queue[p]]
    /\ UNCHANGED <<dist_idem, dist_log, tgVars, rbac_last, rateVars, vaultVars>>

\* Faulty variant: a failed send takes the opportunity away from the other
\* recipients: their pending deliveries are dropped and their markers cleared
distribute_to_recipient_abort_on_failure(opportunity_id, recipient_id) ==
    LET p == <<opportunity_id, recipient_id>>
    IN /\ dist_queue[p] > 0
       /\ IF already_distributed(opportunity_id, recipient_id)
          THEN /\ dist_log' = [dist_log EXCEPT ![p].skipped = @ + 1]
               /\ dist_queue' = [dist_queue EXCEPT ![p] = @ - 1]
               /\ UNCHANGED dist_idem
          ELSE \E send_result \in send_message_to_chat :
                  IF send_opportunity_notification(send_result)
                  THEN /\ dist_idem' = dist_idem \cup {p}
                       /\ dist_queue' = [dist_queue EXCEPT ![p] = @ - 1]
                       /\ dist_log' = [dist_log EXCEPT
                             ![p].sent = @ + 1,
                             ![p].delivered = @ + (IF send_result = "sent" THEN 1 ELSE 0)]
                  ELSE /\ dist_log' = [dist_log EXCEPT
                             ![p].failed = @ + 1,
                             ![p].delivered = @ + (IF send_result = "sent" THEN 1 ELSE 0)]
                       /\ dist_queue' = [q \in Deliveries |->
                             IF q[1] = opportunity_id THEN 0 ELSE dist_queue[q]]
                       /\ dist_idem' = {q \in dist_idem : q[1] # opportunity_id}
       /\ UNCHANGED <<dist_submissions, tgVars, rbac_last, rateVars, vaultVars>>

distribute_to_recipient(opportunity_id, recipient_id) ==
    LET p == <<opportunity_id, recipient_id>>
    IN /\ dist_queue[p] > 0
       /\ dist_queue' = [dist_queue EXCEPT ![p] = @ - 1]
       /\ IF already_distributed(opportunity_id, recipient_id)
          THEN /\ dist_log' = [dist_log EXCEPT ![p].skipped = @ + 1]
               /\ UNCHANGED dist_idem
          ELSE \E send_result \in send_message_to_chat :
                  IF send_opportunity_notification(send_result)
                  THEN /\ dist_idem' = dist_idem \cup {p}
                       /\ dist_log' = [dist_log EXCEPT
                             ![p].sent = @ + 1,
                             ![p].delivered = @ + (IF send_result = "sent" THEN 1 ELSE 0)]
                  ELSE /\ dist_log' = [dist_log EXCEPT
                             ![p].failed = @ + 1,
                             ![p].delivered = @ + (IF send_result = "sent" THEN 1 ELSE 0)]
                       /\ UNCHANGED dist_idem
       /\ UNCHANGED <<dist_submissions, tgVars, rbac_last, rateVars, vaultVars>>

(***************************************************************************)
(* The decision the engine reaches per (opportunity, recipient):           *)
(* Considered -> (Eligible | Ineligible) -> (Admitted | RateLimited |      *)
(* Blocked) -> (Sent | FailedSend).  An opportunity expires                *)
(* OpportunityTtlTicks after its creation.                                 *)
(***************************************************************************)
NotCreated == -1
PolicyOpportunities == {1}
DeliveryStates == {"Considered", "Ineligible", "RateLimited", "Blocked", "Sent", "FailedSend"}
FinalStates == {"Ineligible", "RateLimited", "Blocked", "Sent"}
Admissions == {"Admitted", "RateLimited", "Blocked"}

expires_at(opportunity_id) == dist_created[opportunity_id] + OpportunityTtlTicks

\* Faulty variant: a failed send is tried again whatever the age of the opportunity
may_attempt_after_ttl(state, opportunity_id) == state \in {"Considered", "FailedSend"}

\* Whether the engine works on a pair in this state: not on a final one, and
\* on a failed send only while the opportunity has not expired.
may_attempt(state, opportunity_id) ==
    \/ state = "Considered"
    \/ state = "FailedSend" /\ dist_clock < expires_at(opportunity_id)

\* A submission; the first one fixes created_at.
submit_opportunity_at(opportunity_id) ==
    /\ submit_opportunity(opportunity_id)
    /\ dist_created' = [dist_created EXCEPT ![opportunity_id] =
                           IF @ = NotCreated THEN dist_clock ELSE @]
    /\ UNCHANGED <<dist_state, dist_clock>>

\* The per-recipient operation: compose, rate-check, send, record.
consider_recipient(opportunity_id, recipient_id) ==
    LET p == <<opportunity_id, recipient_id>>
    IN /\ dist_queue[p] > 0
       /\ IF ~may_attempt(dist_state[p], opportunity_id)
          THEN /\ dist_queue' = [dist_queue EXCEPT ![p] = @ - 1]
               /\ dist_log' = [dist_log EXCEPT ![p].skipped = @ + 1]
               /\ UNCHANGED <<dist_idem, dist_submissions, dist_state,
                              tgVars, rbac_last, rateVars, vaultVars>>
          ELSE \E eligible \in BOOLEAN, admission \in Admissions :
                  IF dist_state[p] = "Considered" /\ ~eligible
                  THEN /\ dist_state' = [dist_state EXCEPT ![p] = "Ineligible"]
                       /\ dist_queue' = [dist_queue EXCEPT ![p] = @ - 1]
                       /\ UNCHANGED <<dist_idem, dist_log, dist_submissions,
                                      tgVars, rbac_last, rateVars, vaultVars>>
                  ELSE IF dist_state[p] = "Considered" /\ admission # "Admitted"
                  THEN /\ dist_state' = [dist_state EXCEPT ![p] = admission]
                       /\ dist_queue' = [dist_queue EXCEPT ![p] = @ - 1]
                       /\ UNCHANGED <<dist_idem, dist_log, dist_submissions,
                                      tgVars, rbac_last, rateVars, vaultVars>>
                  ELSE /\ distribute_to_recipient(opportunity_id, recipient_id)
                       /\ dist_state' = [dist_state EXCEPT ![p] =
                              IF p \in dist_idem' THEN "Sent" ELSE "FailedSend"]
       /\ UNCHANGED <<dist_created, dist_clock>>

DistTick ==
    /\ dist_clock < MaxDistClock
    /\ dist_clock' = dist_clock + 1
    /\ UNCHANGED <<dist_idem, dist_queue, dist_log, dist_submissions, dist_state,
                   dist_created, tgVars, rbac_last, rateVars, vaultVars>>

StoredProfiles ==
    {NoProfile,
     [exists |-> TRUE, role |-> "Basic", is_active |-> FALSE],
     [exists |-> TRUE, role |-> "Premium", is_active |-> TRUE],
     [exists |-> TRUE, role |-> "SuperAdmin", is_active |-> TRUE]}

NoCheck == [user |-> NoUser, permission |-> "none", result |-> FALSE,
            persisted |-> FALSE, is_active |-> FALSE, role |-> "Guest",
            wired |-> FALSE, lookup_ok |-> FALSE]

InitTelegram(slots) ==
    /\ is_test_mode \in BOOLEAN
    /\ user_profile_service = FALSE
    /\ session_management_service = FALSE
    /\ profiles \in [Users -> StoredProfiles]
    /\ sessions = [u \in Users |-> NoSession]
    /\ now = 0
    /\ requests = [r \in slots |-> Idle]
    /\ response = NoResponse

(***************************************************************************)
(* AiIntelligenceService::fetch_exchange_data_for_positions: the tiered    *)
(* read of a price series per position (pipeline, KV cache, exchange API,  *)
(* mock).  A PriceSeries is kept as the exchange_id it carries and the     *)
(* number of its data_points; a JSON value as the shape serde sees.        *)
(***************************************************************************)
MaxPositions == 1
MaxKlines == 1
\* create_mock_price_series pushes one point per hour of the last day.
MockPoints == 24

Exchanges == {"binance", "bybit", "okx", "kraken"}

PriceSeries(exchange_id, points) == [exchange_id |-> exchange_id, points |-> points]
NoSeries == PriceSeries("none", 0)

JsonValue(shape, price_data, points) ==
    [shape |-> shape, price_data |-> price_data, points |-> points]
\* Ok(None) of the pipeline, and a text that is not JSON.
NoneValue == JsonValue("none", "absent", 0)
NotJson == JsonValue("not_json", "absent", 0)
\* The JSON documents a pipeline key may hold: a serialised PriceSeries, a
\* market-data object with a "price_data" member (a PriceSeries or not),
\* and an object with neither.
PipelineValues ==
    {JsonValue("price_series", "absent", n) : n \in 0 .. MaxKlines}
    \cup {JsonValue("market_data", "price_series", n) : n \in 0 .. MaxKlines}
    \cup {JsonValue("market_data", "malformed", 0), JsonValue("other", "absent", 0)}

R2Responses ==
    {[status |-> s, body |-> NotJson] : s \in {"network_error", "non_success"}}
    \cup {[status |-> "success", body |-> v] : v \in PipelineValues \cup {NotJson}}

\* CloudflarePipelinesService::get_latest_data.  When R2 does not answer
\* with a success status the result is Ok of an object whose "price_data"
\* has "data_points": [] and no "last_updated".
get_latest_data(r2_response) ==
    IF r2_response.status = "network_error" THEN Err("network_error")
    ELSE IF r2_response.status = "success"
         THEN (IF r2_response.body.shape = "not_json" THEN Err("parse_error")
               ELSE Ok(r2_response.body))
    ELSE Ok(JsonValue("market_data", "incomplete", 0))

\* What pipelines.get_latest_data(&market_data_key) may answer.
PipelineAnswers ==
    {get_latest_data(r) : r \in R2Responses} \cup {Ok(NoneValue), Ok(NotJson)}

create_mock_price_series == PriceSeries("mock", MockPoints)

\* serde_json::from_value::<PriceSeries>: every field of PriceSeries is
\* required, and an empty "data_points" array is a Vec like any other.
parse_pipeline_data_to_price_series(data, exchange) ==
    IF data.shape = "price_series" THEN Ok(PriceSeries(exchange, data.points))
    ELSE IF data.price_data # "absent"
         THEN (IF data.price_data = "price_series"
               THEN Ok(PriceSeries(exchange, data.points))
               ELSE Err("parse_error"))
    ELSE Ok(create_mock_price_series)

get_position_data_from_pipeline(answer, exchange) ==
    IF ~answer.ok THEN Err("not_found")
    ELSE IF answer.value.shape = "none" THEN Err("not_found")
    ELSE IF answer.value.shape = "not_json" THEN Err("parse_error")
    ELSE parse_pipeline_data_to_price_series(answer.value, exchange)

\* kv_store.get(&cache_key): the entries are the ones written by
\* cache_price_series_data, which parse.
get_cached_exchange_data(cache, exchange, kv_get) ==
    IF kv_get = "err" THEN Err("storage_error")
    ELSE IF cache[exchange] = NoSeries THEN Err("not_found")
    ELSE Ok(cache[exchange])

\* A kline is TRUE iff it is an array of at least 6 members with a u64
\* timestamp and close and volume strings that parse as f64.
Klines == UNION {[1 .. n -> BOOLEAN] : n \in 0 .. MaxKlines}

RECURSIVE valid_klines(_)
valid_klines(klines) ==
    IF klines = << >> THEN 0
    ELSE (IF Head(klines) THEN 1 ELSE 0) + valid_klines(Tail(klines))

parse_binance_klines(klines) ==
    IF valid_klines(klines) = 0 THEN Err("parse_error")
    ELSE Ok(PriceSeries("binance", valid_klines(klines)))

parse_bybit_klines(klines) ==
    IF valid_klines(klines) = 0 THEN Err("parse_error")
    ELSE Ok(PriceSeries("bybit", valid_klines(klines)))

parse_okx_candles(klines) ==
    IF valid_klines(klines) = 0 THEN Err("parse_error")
    ELSE Ok(PriceSeries("okx", valid_klines(klines)))

OriginResponses ==
    {[status |-> s, klines |-> << >>] : s \in {"network_error", "api_error", "not_json"}}
    \cup {[status |-> "ok", klines |-> k] : k \in Klines}

\* fetch_binance_data, fetch_bybit_data, fetch_okx_data: the request, the
\* status check, the JSON of the body, then the parser of the exchange.
fetch_exchange_klines(exchange, api_response) ==
    IF api_response.status = "network_error" THEN Err("network_error")
    ELSE IF api_response.status = "api_error" THEN Err("api_error")
    ELSE IF api_response.status = "not_json" THEN Err("parse_error")
    ELSE IF exchange = "binance" THEN parse_binance_klines(api_response.klines)
    ELSE IF exchange = "bybit" THEN parse_bybit_klines(api_response.klines)
    ELSE parse_okx_candles(api_response.klines)

\* kv_store.put(..).expiration_ttl(300): a failed put is ignored.
cache_price_series_data(cache, exchange, price_series, kv_put) ==
    IF kv_put = "ok" THEN [cache EXCEPT ![exchange] = price_series] ELSE cache

\* The result, and the cache after "Cache successful results".
fetch_real_exchange_data(cache, exchange, api_response, kv_put) ==
    LET result == IF exchange \in {"binance", "bybit", "okx"}
                  THEN fetch_exchange_klines(exchange, api_response)
                  ELSE Err("not_implemented")
    IN [result |-> result,
        cache |-> IF result.ok
                  THEN cache_price_series_data(cache, exchange, result.value, kv_put)
                  ELSE cache]

\* A position, with what its reads will be answered.
PositionReads ==
    [exchange : Exchanges, answer : PipelineAnswers, cache_get : KvOutcome,
     response : OriginResponses, puts : KvOutcome \X KvOutcome]

\* exchange_data.insert(exchange_key, ..) on a HashMap.
insert(exchange_data, exchange, series, tier) ==
    {e \in exchange_data : e.exchange # exchange}
    \cup {[exchange |-> exchange, series |-> series, tier |-> tier]}

\* One round of the loop over the positions.
position_data(position, wired, cache) ==
    LET pipeline == get_position_data_from_pipeline(position.answer, position.exchange)
        cached == get_cached_exchange_data(cache, position.exchange, position.cache_get)
        real == fetch_real_exchange_data(cache, position.exchange, position.response,
                                         position.puts[1])
    IN IF wired /\ pipeline.ok
       THEN [series |-> pipeline.value, tier |-> "pipeline", cache |-> cache]
       ELSE IF cached.ok
       THEN [series |-> cached.value, tier |-> "cache", cache |-> cache]
       ELSE IF real.result.ok
       THEN [series |-> real.result.value, tier |-> "origin",
             cache |-> cache_price_series_data(real.cache, position.exchange,
                                               real.result.value, position.puts[2])]
       ELSE [series |-> create_mock_price_series, tier |-> "mock", cache |-> cache]

RECURSIVE fetch_loop(_, _, _, _)
fetch_loop(positions, wired, cache, exchange_data) ==
    IF positions = << >> THEN [cache |-> cache, exchange_data |-> exchange_data]
    ELSE LET got == position_data(Head(positions), wired, cache)
         IN fetch_loop(Tail(positions), wired, got.cache,
                       insert(exchange_data, Head(positions).exchange,
                              got.series, got.tier))

NoMarketFetch == [call |-> "none", positions |-> 0, result |-> "none",
                  exchange_data |-> {}]

fetch_exchange_data_for_positions(positions) ==
    LET out == fetch_loop(positions, pipelines_service, market_cache, {})
    IN /\ market_cache' = out.cache
       /\ market_last' =
             [call |-> "fetch_exchange_data_for_positions",
              positions |-> Len(positions),
              result |-> IF out.exchange_data = {} THEN "not_found" ELSE "ok",
              exchange_data |-> out.exchange_data]
       /\ UNCHANGED <<pipelines_service, development_mode, global_opp, rate_kv,
                      rate_clock, rate_log, rate_last, rate_conc, ai_call, exchangeVars, tgVars, rbac_last,
                      vaultVars, distVars>>

\* The 5 minute TTL of a cache entry runs out.
market_cache_expire(exchange) ==
    /\ market_cache[exchange] # NoSeries
    /\ market_cache' = [market_cache EXCEPT ![exchange] = NoSeries]
    /\ UNCHANGED <<pipelines_service, development_mode, market_last, global_opp,
                   rate_kv, rate_clock, rate_log, rate_last, rate_conc, ai_call, exchangeVars, tgVars, rbac_last,
                   vaultVars, distVars>>

(***************************************************************************)
(* AiIntelligenceService::convert_to_global_opportunity: the               *)
(* TradingOpportunity that the AI analysis is about becomes the            *)
(* GlobalOpportunity handed to the AI router.  exchanges is the Vec of     *)
(* exchange names of the TradingOpportunity.                               *)
(***************************************************************************)
MaxExchangeNames == 2
\* "nasdaq" stands for a name on which parse::<ExchangeIdEnum>() fails.
ExchangeNames == Exchanges \cup {"nasdaq"}
RiskLevel == {"Low", "Medium", "High"}
NoExpiry == 0
TradingOpportunities ==
    [exchanges : UNION {[1 .. n -> ExchangeNames] : n \in 0 .. MaxExchangeNames},
     risk_level : RiskLevel, created_at : {1}, expires_at : {NoExpiry, 5000}]

NoGlobalOpportunity ==
    [call |-> "none", exchanges |-> << >>, long_exchange |-> "none",
     short_exchange |-> "none", type |-> "none", expires_at |-> 0]

\* exchanges.iter().filter_map(|s| s.parse::<ExchangeIdEnum>().ok()).collect()
available_exchanges(exchanges) == SelectSeq(exchanges, LAMBDA name : name \in Exchanges)

select_exchanges_for_opportunity(trading_opp) ==
    LET available == available_exchanges(trading_opp.exchanges)
    IN IF Len(available) = 0 THEN <<"binance", "bybit">>
       ELSE IF Len(available) = 1 THEN <<available[1], available[1]>>
       ELSE <<available[1], available[2]>>

\* milliseconds, by risk level
get_default_expiry_duration(trading_opp) ==
    IF trading_opp.risk_level = "Low" THEN 4 * 60 * 60 * 1000
    ELSE IF trading_opp.risk_level = "Medium" THEN 2 * 60 * 60 * 1000
    ELSE 30 * 60 * 1000

\* ArbitrageOpportunity::new(pair, long_exchange, short_exchange, ..): the
\* opportunity holds the exchanges it is given.
ArbitrageOpportunity_new(long_exchange, short_exchange) ==
    [long_exchange |-> long_exchange, short_exchange |-> short_exchange,
     type |-> "default"]

convert_to_global_opportunity(trading_opp) ==
    LET expiry == IF trading_opp.expires_at # NoExpiry THEN trading_opp.expires_at
                  ELSE trading_opp.created_at * 1000
                       + get_default_expiry_duration(trading_opp)
        selected == select_exchanges_for_opportunity(trading_opp)
        arb_opp == [ArbitrageOpportunity_new(selected[1], selected[2])
                       EXCEPT !.type = "CrossExchange"]
    IN /\ global_opp' = [call |-> "convert_to_global_opportunity",
                         exchanges |-> trading_opp.exchanges,
                         long_exchange |-> arb_opp.long_exchange,
                         short_exchange |-> arb_opp.short_exchange,
                         type |-> arb_opp.type, expires_at |-> expiry]
       /\ UNCHANGED <<pipelines_service, development_mode, market_cache, market_last,
                      rate_kv, rate_clock, rate_log, rate_last, rate_conc, ai_call, exchangeVars, tgVars,
                      rbac_last, vaultVars, distVars>>

(***************************************************************************)
(* UserExchangeApiService: the exchange API keys in a user's profile, the  *)
(* cached validation results and the cached compatibility results.  Each   *)
(* call reads the profile, changes its copy and writes it back; a key is   *)
(* kept here by its exchange and its is_active flag.                       *)
(***************************************************************************)
MaxUserApiKeys == 3
ExchangeApiUsers == {7}
ExchangeIds == {"binance", "bybit"}
NoCompatibility == [cached |-> FALSE, is_compatible |-> FALSE,
                    arbitrage_compatible |-> FALSE, user_exchanges |-> 0]
NoExchangeCall == [call |-> "none", user |-> NoUser, exchange_id |-> "none",
                   result |-> "none", compatibility |-> NoCompatibility]

\* The parts of the state no UserExchangeApiService call touches.
exchangeFrame == <<pipelines_service, development_mode, market_cache, market_last,
                   global_opp, rate_kv, rate_clock, rate_log, rate_last, rate_conc,
                   ai_call, tgVars, rbac_last, vaultVars, distVars>>

exchange_call(name, user_id, exchange_id, result) ==
    [call |-> name, user |-> user_id, exchange_id |-> exchange_id,
     result |-> result, compatibility |-> NoCompatibility]

\* any(|key| provider == exchange_id && key.is_active)
has_active_key(keys, exchange_id) ==
    \E i \in DOMAIN keys : keys[i].exchange = exchange_id /\ keys[i].is_active

\* iter().position(|key| provider == exchange_id): 0 stands for None
key_position(keys, exchange_id) ==
    IF \E i \in DOMAIN keys : keys[i].exchange = exchange_id
    THEN CHOOSE i \in DOMAIN keys :
            /\ keys[i].exchange = exchange_id
            /\ \A j \in DOMAIN keys : keys[j].exchange = exchange_id => i <= j
    ELSE 0

\* retain(|key| provider != exchange_id)
retain_other_exchanges(keys, exchange_id) ==
    SelectSeq(keys, LAMBDA key : key.exchange # exchange_id)

\* add_api_key: is_valid is the outcome of validate_api_key_connectivity
add_api_key(user_id, exchange_id, is_valid) ==
    LET keys == api_keys[user_id]
        accepted == is_valid /\ ~has_active_key(keys, exchange_id)
    IN /\ Len(keys) < MaxUserApiKeys
       /\ api_keys' = IF accepted
                      THEN [api_keys EXCEPT ![user_id] =
                               Append(keys, [exchange |-> exchange_id,
                                             is_active |-> TRUE])]
                      ELSE api_keys
       /\ validation_cache' = IF accepted
                              THEN validation_cache \cup {<<user_id, exchange_id>>}
                              ELSE validation_cache
       /\ exchange_last' = exchange_call("add_api_key", user_id, exchange_id,
                              IF accepted THEN "ok" ELSE "validation_error")
       /\ UNCHANGED <<compatibility_cache, exchangeFrame>>

\* update_api_key: is_active is request.is_active ("none" for None);
\* leverage_in_range is false when request.default_leverage is outside 1..=100
update_api_key(user_id, exchange_id, is_active, leverage_in_range) ==
    LET keys == api_keys[user_id]
        api_key_index == key_position(keys, exchange_id)
        result == IF api_key_index = 0 THEN "not_found"
                  ELSE IF ~leverage_in_range THEN "validation_error" ELSE "ok"
    IN /\ api_keys' = IF result = "ok" /\ is_active # "none"
                      THEN [api_keys EXCEPT ![user_id][api_key_index].is_active =
                               (is_active = "true")]
                      ELSE api_keys
       /\ exchange_last' = exchange_call("update_api_key", user_id, exchange_id, result)
       /\ UNCHANGED <<validation_cache, compatibility_cache, exchangeFrame>>

\* kv_store.delete("api_validation:{user}:{exchange}")
clear_validation_cache(cache, user_id, exchange_id) ==
    cache \ {<<user_id, exchange_id>>}

delete_api_key(user_id, exchange_id) ==
    LET keys == api_keys[user_id]
        retained == retain_other_exchanges(keys, exchange_id)
        found == Len(retained) # Len(keys)
    IN /\ api_keys' = [api_keys EXCEPT ![user_id] = retained]
       /\ validation_cache' = IF found
                              THEN clear_validation_cache(validation_cache, user_id,
                                                          exchange_id)
                              ELSE validation_cache
       /\ exchange_last' = exchange_call("delete_api_key", user_id, exchange_id,
                              IF found THEN "ok" ELSE "not_found")
       /\ UNCHANGED <<compatibility_cache, exchangeFrame>>

\* get_user_api_keys: the keys that are active, one entry per key
get_user_api_keys(keys) == SelectSeq(keys, LAMBDA key : key.is_active)

\* The ExchangeCompatibilityResult computed from a list of exchanges.
compatibility_result(user_exchanges) ==
    [cached |-> TRUE,
     is_compatible |-> Len(user_exchanges) # 0,
     arbitrage_compatible |-> Len(user_exchanges) >= 2,
     user_exchanges |-> Len(user_exchanges)]

\* The result of check_exchange_compatibility: the cached one when the KV
\* holds one, else the one computed from the profile.
check_exchange_compatibility_result(cached, keys) ==
    IF cached.cached THEN cached
    ELSE compatibility_result(get_user_api_keys(keys))

check_exchange_compatibility(user_id) ==
    LET result == check_exchange_compatibility_result(compatibility_cache[user_id],
                                                      api_keys[user_id])
    IN /\ compatibility_cache' = [compatibility_cache EXCEPT ![user_id] = result]
       /\ exchange_last' = [exchange_call("check_exchange_compatibility", user_id,
                                          "none", "ok")
                               EXCEPT !.compatibility = result]
       /\ UNCHANGED <<api_keys, validation_cache, exchangeFrame>>

\* The one hour TTL of a cached compatibility result runs out.
compatibility_cache_expire(user_id) ==
    /\ compatibility_cache[user_id].cached
    /\ compatibility_cache' = [compatibility_cache EXCEPT ![user_id] = NoCompatibility]
    /\ UNCHANGED <<api_keys, validation_cache, exchange_last, exchangeFrame>>

InitExchangeApi ==
    /\ api_keys = [u \in ExchangeApiUsers |-> << >>]
    /\ validation_cache = {}
    /\ compatibility_cache = [u \in ExchangeApiUsers |-> NoCompatibility]
    /\ exchange_last = NoExchangeCall

InitMarket(services, modes) ==
    /\ pipelines_service \in services
    /\ development_mode \in modes
    /\ market_cache = [e \in Exchanges |-> NoSeries]
    /\ market_last = NoMarketFetch
    /\ global_opp = NoGlobalOpportunity
    /\ InitExchangeApi

\* The variables of the other components, with their initial values.
InitRateLimit ==
    /\ rate_kv = [k \in {} |-> 0]
    /\ rate_clock = 0
    /\ rate_log = [u \in RateUsers |-> [hour |-> 0, calls |-> 0, admitted |-> 0]]
    /\ rate_last = NoRateCall
    /\ ai_call = NoAiCall
    /\ rate_conc = NoRateConc

InitRate == InitRateLimit /\ InitMarket({FALSE}, {FALSE})

InitVault ==
    /\ ai_key_records = {}
    /\ ai_key_index = [u \in VaultUsers |-> << >>]
    /\ next_api_key_id = 1
    /\ vault_last = NoVaultCall
    /\ vault_ops = [p \in VaultProcs |-> NoVaultOp]
    /\ vault_hist = NoVaultHist
    /\ vault_list = NoVaultList
    /\ ai_key_data = {}
    /\ vault_given = {}
    /\ vault_validate = NoVaultValidate
    /\ crypt = NoCrypt

InitDist ==
    /\ dist_idem = {}
    /\ dist_queue = [p \in Deliveries |-> 0]
    /\ dist_log = [p \in Deliveries |-> NoDelivery]
    /\ dist_submissions = [o \in Opportunities |-> 0]
    /\ dist_state = [p \in Deliveries |-> "Considered"]
    /\ dist_created = [o \in Opportunities |-> NotCreated]
    /\ dist_clock = 0

Init ==
    /\ InitTelegram({1})
    /\ rbac_last = NoCheck
    /\ InitRate /\ InitVault /\ InitDist

Next ==
    \/ \E u \in Updates : handle_webhook(1, u) /\ UNCHANGED otherVars
    \/ gate_validate(1) /\ UNCHANGED otherVars
    \/ gate_touch(1) /\ UNCHANGED otherVars
    \/ gate_dispatch(1) /\ UNCHANGED otherVars
    \/ \E chat \in ChatType, trading \in BOOLEAN :
          send_secure_notification(chat, trading) /\ UNCHANGED otherVars
    \/ set_user_profile_service /\ UNCHANGED otherVars
    \/ set_session_management_service /\ UNCHANGED otherVars
    \/ Tick /\ UNCHANGED otherVars
    \/ respond /\ UNCHANGED otherVars

Spec == Init /\ [][Next]_vars

(***************************************************************************)
(* SpecGate: several invocations for the same user in flight at once, so   *)
(* that the validate and touch of one interleave with those of another     *)
(* and with the clock.  The updates are private "/start" and "/status".    *)
(***************************************************************************)
GateUpdates ==
    [kind : {"message"}, text : {"start", "status"}, chat : {"private"},
     from : Users, complete : {TRUE}]

InitGate ==
    /\ InitTelegram(1 .. MaxRequests)
    /\ rbac_last = NoCheck
    /\ InitRate /\ InitVault /\ InitDist

NextGate ==
    \/ \E r \in 1 .. MaxRequests, u \in GateUpdates :
          handle_webhook(r, u) /\ UNCHANGED otherVars
    \/ \E r \in 1 .. MaxRequests : gate_validate(r) /\ UNCHANGED otherVars
    \/ \E r \in 1 .. MaxRequests : gate_touch(r) /\ UNCHANGED otherVars
    \/ \E r \in 1 .. MaxRequests : gate_dispatch(r) /\ UNCHANGED otherVars
    \/ set_session_management_service /\ UNCHANGED otherVars
    \/ Tick /\ UNCHANGED otherVars
    \/ respond /\ UNCHANGED otherVars

SpecGate == InitGate /\ [][NextGate]_vars

(***************************************************************************)
(* SpecRbac: check_user_permission applied to every user id and permission *)
(* over every content of the user store.                                   *)
(***************************************************************************)
\* The record the store holds for a user (none for an id above i64::MAX).
UserRecord(user_id) == IF user_id \in Users THEN profiles[user_id] ELSE NoProfile

\* The user store changes under the service: sign-up, subscription, role.
profile_write(user_id, profile) ==
    /\ profiles' = [profiles EXCEPT ![user_id] = profile]
    /\ UNCHANGED <<is_test_mode, user_profile_service, session_management_service,
                   sessions, now, requests, response, rbac_last>>
    /\ UNCHANGED <<rateVars, vaultVars, distVars>>

call_check_user_permission(user_id, permission) ==
    /\ \E lookup \in get_user_by_telegram_id(parse_i64_or_zero(user_id)) :
          rbac_last' = [user |-> user_id, permission |-> permission,
                        result |-> check_user_permission(user_id, permission, lookup),
                        persisted |-> UserRecord(user_id).exists,
                        is_active |-> UserRecord(user_id).is_active,
                        role |-> UserRecord(user_id).role,
                        wired |-> user_profile_service,
                        lookup_ok |-> lookup.ok]
    /\ UNCHANGED <<tgVars, rateVars, vaultVars, distVars>>

InitRbac ==
    /\ is_test_mode = TRUE
    /\ user_profile_service = FALSE
    /\ session_management_service = FALSE
    /\ profiles = [u \in Users |-> NoProfile]
    /\ sessions = [u \in Users |-> NoSession]
    /\ now = 0
    /\ requests = [r \in {1} |-> Idle]
    /\ response = NoResponse
    /\ rbac_last = NoCheck
    /\ InitRate /\ InitVault /\ InitDist

NextRbac ==
    \/ set_user_profile_service /\ UNCHANGED otherVars
    \/ \E u \in Users, p \in Profiles : profile_write(u, p)
    \/ \E u \in UserIds, p \in CommandPermission : call_check_user_permission(u, p)

SpecRbac == InitRbac /\ [][NextRbac]_vars

(***************************************************************************)
(* SpecRate: users call check_ai_rate_limit one call at a time while the   *)
(* clock runs through the hours.                                           *)
(***************************************************************************)
InitIdleTelegram ==
    /\ is_test_mode \in BOOLEAN
    /\ user_profile_service = FALSE
    /\ session_management_service = FALSE
    /\ profiles = [u \in Users |-> NoProfile]
    /\ sessions = [u \in Users |-> NoSession]
    /\ now = 0
    /\ requests = [r \in {1} |-> Idle]
    /\ response = NoResponse
    /\ rbac_last = NoCheck

InitSpecRate == InitIdleTelegram /\ InitRate /\ InitVault /\ InitDist

NextRate ==
    \/ \E u \in RateUsers : check_ai_rate_limit(u) /\ UNCHANGED ai_call
    \/ RateTick

SpecRate == InitSpecRate /\ [][NextRate]_vars

(***************************************************************************)
(* SpecRateConc: check_ai_rate_limit calls of several isolates interleave  *)
(* at their awaits while the clock runs.                                   *)
(***************************************************************************)
NextRateConc ==
    \/ \E i \in RateIsolates, u \in RateUsers : check_ai_rate_limit_get(i, u)
    \/ \E i \in RateIsolates : check_ai_rate_limit_put(i)
    \/ RateTick

SpecRateConc == InitSpecRate /\ [][NextRateConc]_vars

(***************************************************************************)
(* SpecAi: users make AI enrichment calls while the clock runs.            *)
(***************************************************************************)
InitSpecAi == InitIdleTelegram /\ InitRate /\ InitVault /\ InitDist

NextAi ==
    \/ \E u \in RateUsers : analyze_opportunity_with_ai(u)
    \/ \E u \in RateUsers : assess_portfolio_risk_with_ai(u)
    \/ \E u \in RateUsers : generate_performance_insights(u)
    \/ \E u \in RateUsers : optimize_trading_parameters(u)
    \/ RateTick

SpecAi == InitSpecAi /\ [][NextAi]_vars

(***************************************************************************)
(* SpecMarket: price series are fetched for lists of positions while cache *)
(* entries expire; the service is built with or without a pipeline.        *)
(***************************************************************************)
InitSpecMarket ==
    /\ InitIdleTelegram /\ InitRateLimit /\ InitVault /\ InitDist
    /\ InitMarket(BOOLEAN, BOOLEAN)

NextMarket ==
    \/ \E n \in 0 .. MaxPositions : \E positions \in [1 .. n -> PositionReads] :
          fetch_exchange_data_for_positions(positions)
    \/ \E e \in Exchanges : market_cache_expire(e)

SpecMarket == InitSpecMarket /\ [][NextMarket]_vars

(***************************************************************************)
(* SpecOpportunity: trading opportunities are converted for the AI router. *)
(***************************************************************************)
InitSpecOpportunity == InitIdleTelegram /\ InitRate /\ InitVault /\ InitDist

NextOpportunity ==
    \E trading_opp \in TradingOpportunities : convert_to_global_opportunity(trading_opp)

SpecOpportunity == InitSpecOpportunity /\ [][NextOpportunity]_vars

(***************************************************************************)
(* SpecExchangeApi: a user adds, updates and deletes exchange API keys and  *)
(* asks for the exchange compatibility, while cached results expire.       *)
(***************************************************************************)
InitSpecExchangeApi == InitIdleTelegram /\ InitRate /\ InitVault /\ InitDist

NextExchangeApi ==
    \/ \E u \in ExchangeApiUsers, e \in ExchangeIds, is_valid \in BOOLEAN :
          add_api_key(u, e, is_valid)
    \/ \E u \in ExchangeApiUsers, e \in ExchangeIds,
          is_active \in {"none", "true", "false"}, leverage_in_range \in BOOLEAN :
          update_api_key(u, e, is_active, leverage_in_range)
    \/ \E u \in ExchangeApiUsers, e \in ExchangeIds : delete_api_key(u, e)
    \/ \E u \in ExchangeApiUsers : check_exchange_compatibility(u)
    \/ \E u \in ExchangeApiUsers : compatibility_cache_expire(u)

SpecExchangeApi == InitSpecExchangeApi /\ [][NextExchangeApi]_vars

(***************************************************************************)
(* SpecCrypt: strings are encrypted, kept or changed, and decrypted.       *)
(***************************************************************************)
InitSpecCrypt == InitIdleTelegram /\ InitRate /\ InitVault /\ InitDist

NextCrypt ==
    \/ \E k \in EncryptionKeys, p \in Plaintexts : call_ai_encrypt_string(k, p)
    \/ \E k \in EncryptionKeys, n \in Nonces, p \in Plaintexts :
          call_exchange_encrypt_string(k, n, p)
    \/ \E i \in 1 .. Len(crypt.text), c \in TamperChars : tamper_ciphertext(i, c)
    \/ call_decrypt_string
    \/ crypt_return

SpecCrypt == InitSpecCrypt /\ [][NextCrypt]_vars

(***************************************************************************)
(* SpecVault: stores and removals of AI keys, one call at a time.          *)
(***************************************************************************)
InitSpecVault == InitIdleTelegram /\ InitRate /\ InitVault /\ InitDist

NextVault ==
    \/ \E u \in VaultUsers, p \in ApiKeyProvider :
          store_ai_credentials(u, p) /\ UNCHANGED <<vault_ops, vault_hist, vault_list, cycleVars>>
    \/ \E u \in VaultUsers, k \in 1 .. MaxApiKeyIds :
          remove_ai_credentials(u, k) /\ UNCHANGED <<vault_ops, vault_hist, vault_list, cycleVars>>

SpecVault == InitSpecVault /\ [][NextVault]_vars

(***************************************************************************)
(* SpecVaultConc: stores, removals and reads of AI keys overlapping in     *)
(* two isolates, over a KV store whose operations may fail.                *)
(***************************************************************************)
InitSpecVaultConc == InitIdleTelegram /\ InitRate /\ InitVault /\ InitDist

NextVaultConc ==
    \/ \E p \in VaultProcs, u \in VaultConcUsers, provider \in ApiKeyProvider :
          store_begin(p, u, provider)
    \/ \E p \in VaultProcs : store_put_record(p)
    \/ \E p \in VaultProcs, u \in VaultConcUsers, k \in 1 .. MaxConcApiKeyIds :
          remove_begin(p, u, k)
    \/ \E p \in VaultProcs : index_get(p)
    \/ \E p \in VaultProcs : index_put(p)
    \/ \E p \in VaultProcs, u \in VaultConcUsers : read_index(p, u)
    \/ \E p \in VaultProcs : read_records(p)

SpecVaultConc == InitSpecVaultConc /\ [][NextVaultConc]_vars

(***************************************************************************)
(* SpecVaultFaulty: stores, removals and listings of AI keys by one        *)
(* isolate over a KV store whose operations may fail, so that a removal    *)
(* can end between the delete of the record and the update of the index.   *)
(***************************************************************************)
InitSpecVaultFaulty == InitIdleTelegram /\ InitRate /\ InitVault /\ InitDist

NextVaultFaulty ==
    \/ \E u \in VaultUsers, provider \in ApiKeyProvider : store_begin(1, u, provider)
    \/ store_put_record(1)
    \/ \E u \in VaultUsers, k \in 1 .. MaxConcApiKeyIds : remove_begin(1, u, k)
    \/ index_get(1)
    \/ index_put(1)
    \/ \E u \in VaultUsers : call_get_user_ai_keys(1, u)

SpecVaultFaulty == InitSpecVaultFaulty /\ [][NextVaultFaulty]_vars

(***************************************************************************)
(* SpecVaultCycle: keys are stored, listed, decrypted and removed, one     *)
(* call at a time, on a KV store that answers.                             *)
(***************************************************************************)
InitSpecVaultCycle == InitIdleTelegram /\ InitRate /\ InitVault /\ InitDist

NextVaultCycle ==
    \/ \E u \in VaultConcUsers, provider \in ApiKeyProvider, api_key \in ApiKeys,
          base_url \in MetadataBaseUrls :
          store_ai_credentials_with_key(u, provider, api_key, base_url)
    \/ \E u \in VaultConcUsers, k \in 1 .. MaxCycleApiKeyIds :
          remove_ai_credentials(u, k)
             /\ UNCHANGED <<vault_ops, vault_hist, vault_list, cycleVars>>
    \/ \E u \in VaultConcUsers,
          k \in (1 .. MaxCycleApiKeyIds)
                 \cup {new_key_uuid(i) : i \in 1 .. MaxCycleApiKeyIds} :
          validate_and_test_credentials(u, k)
    \/ \E u \in VaultConcUsers, provider \in ApiKeyProvider :
          get_user_ai_provider(u, provider)

SpecVaultCycle == InitSpecVaultCycle /\ [][NextVaultCycle]_vars

(***************************************************************************)
(* SpecDist: opportunities are submitted, also repeatedly, and delivered.  *)
(***************************************************************************)
InitSpecDist == InitIdleTelegram /\ InitRate /\ InitVault /\ InitDist

NextDist ==
    \/ \E o \in Opportunities : submit_opportunity(o) /\ UNCHANGED policyVars
    \/ \E o \in Opportunities, r \in Recipients :
          distribute_to_recipient(o, r) /\ UNCHANGED policyVars

SpecDist == InitSpecDist /\ [][NextDist]_vars

(***************************************************************************)
(* SpecDistPolicy: the fan-out with the decision per (opportunity,         *)
(* recipient) and the expiry of opportunities.                             *)
(***************************************************************************)
InitSpecDistPolicy == InitIdleTelegram /\ InitRate /\ InitVault /\ InitDist

NextDistPolicy ==
    \/ \E o \in PolicyOpportunities : submit_opportunity_at(o)
    \/ \E o \in PolicyOpportunities, r \in Recipients : consider_recipient(o, r)
    \/ DistTick

SpecDistPolicy == InitSpecDistPolicy /\ [][NextDistPolicy]_vars

(***************************************************************************)
(* Claims.                                                                 *)
(***************************************************************************)

C2_NoCommandOnExpiredSession ==
    \A r \in DOMAIN requests :
        requests[r].pc = "dispatch" => session_live(requests[r].user)

\* C2 witness: one invocation is past the gate while another one for the
\* same user is between its validate and its touch, after time has passed.
C2_Witness ==
    \E r1, r2 \in DOMAIN requests :
        /\ r1 # r2
        /\ requests[r1].pc = "dispatch"
        /\ requests[r2].pc = "touch"
        /\ requests[r1].user = requests[r2].user
        /\ requests[r1].age > 0
        /\ now >= SessionTtlTicks

\* C3: no message carrying personal trading data goes to a group,
\* supergroup or channel.
PersonalTradingData == {"balance", "orders", "positions", "ai_insights", "trading_data"}

C3_NoPersonalDataInGroups ==
    response.emitted \in PersonalTradingData => ~is_group_or_channel(response.chat)

C9_AdminIffSuperAdmin ==
    rbac_last.permission \in AdminPermissions
    => (rbac_last.result <=> (rbac_last.persisted /\ rbac_last.role = "SuperAdmin"))

\* C9 (amended): an admin permission is allowed exactly when the user
\* profile service is configured, the user's record is read successfully
\* and its role is SuperAdmin; it is allowed for no other user.
C9_AdminIffSuperAdminRead ==
    rbac_last.permission \in AdminPermissions
    => (rbac_last.result <=>
          (rbac_last.wired /\ rbac_last.lookup_ok /\ rbac_last.persisted
           /\ rbac_last.role = "SuperAdmin"))

\* C9 witness: a SuperAdmin was granted an admin permission.
C9_Witness ==
    /\ rbac_last.permission \in AdminPermissions
    /\ rbac_last.role = "SuperAdmin"
    /\ rbac_last.result

\* C10: every user is allowed every Basic permission.
C10_BasicAlwaysAllowed ==
    (rbac_last.user # NoUser /\ rbac_last.permission \in BasicPermissions)
    => rbac_last.result


\* C11: a user whose record is not in the store is refused every permission
\* that is not a Basic one.
C11_UnpersistedUserDenied ==
    (rbac_last.user # NoUser /\ ~rbac_last.persisted
        /\ rbac_last.permission \notin BasicPermissions)
    => ~rbac_last.result

\* C11 witness: with the profile service configured and the store answering,
\* a user without a record asked for a non-Basic permission.
C11_Witness ==
    /\ rbac_last.user \in Users
    /\ rbac_last.wired /\ rbac_last.lookup_ok
    /\ ~rbac_last.persisted
    /\ rbac_last.permission \in SubscriptionPermissions \cup AdminPermissions
    /\ ~rbac_last.result


\* C12: a call that ends with the session-required response changes no
\* stored state: from the moment the command enters the session gate to the
\* moment it is rejected, the session store and the user store stay as they
\* were, so a user without a session record has none afterwards.
C12_RejectionMutatesNothing ==
    [][(\/ requests'[1].pc = "validate"
        \/ (requests[1].pc = "validate" /\ response'.kind = "session_required"))
       => (sessions' = sessions /\ profiles' = profiles)]_vars

\* C12 witness: /balance from a user without a session record was rejected,
\* and the user still has no session record.
C12_Witness ==
    /\ response.kind = "session_required"
    /\ response.command = "balance"
    /\ response.user \in Users
    /\ ~sessions[response.user].exists


TouchedBeforeCommand(r) ==
    /\ requests[r].pc = "dispatch"
    /\ sessions[requests[r].user].exists
    /\ sessions[requests[r].user].last_activity_at >= now - requests[r].age

\* C14 (as stated): the touch is performed after the command has been
\* processed successfully, so no invocation has touched the session while
\* its command is still to be processed.
C14_TouchAfterCommand ==
    \A r \in DOMAIN requests : ~TouchedBeforeCommand(r)

\* C14 (amended): the touch is performed before the command is processed,
\* directly after a validate that returned true: every invocation about to
\* run its command has already touched the session, and every command that
\* went through the gate, the refused and the unknown ones included, leaves
\* the session touched.
C14_TouchBeforeCommand ==
    /\ \A r \in DOMAIN requests :
          requests[r].pc = "dispatch" => TouchedBeforeCommand(r)
    /\ (response.surface = "message" /\ response.validate = "true"
           /\ response.kind \in DispatchKinds)
       => /\ sessions[response.user].exists
          /\ sessions[response.user].last_activity_at >= now - RequestTimeoutTicks

\* C14 witness: a command that passed the gate was refused for lack of
\* permission, and the session was touched all the same.
C14_Witness ==
    /\ response.surface = "message"
    /\ response.validate = "true"
    /\ response.kind = "permission_denied"
    /\ now > 0
    /\ sessions[response.user].last_activity_at = now


\* C15: after a private /start has been answered with a welcome (no error
\* from the session service), the user has a live session, so that the
\* next non-exempt command of the user is admitted.
C15_StartOpensSession ==
    (/\ response.surface = "message"
     /\ response.command = "start"
     /\ response.chat = "private"
     /\ response.user \in Users
     /\ response.session_service
     /\ \/ response.kind = "start_keyboard"
        \/ response.kind = "handler" /\ response.emitted = "welcome_with_session")
    => session_live(response.user)


\* C16: a typed command that reaches the command match in a group,
\* supergroup or channel is processed only if it is help, settings, start,
\* opportunities or admin_group_config; every other command is answered
\* with the fixed security notice, and no handler runs for it.
GroupCommands == {"help", "settings", "start", "opportunities", "admin_group_config"}

C17_ProviderOnlyWhenAdmitted ==
    ai_call.provider_invoked => (ai_call.rate_checked /\ ai_call.admitted)


\* C18: no reader finds an index entry whose record has been removed (or a
\* record removed while its index entry is still there): the removal of a
\* key takes its record and its index entry away as one.
C18_DeleteAtomic ==
    vault_hist.dangling_seen = {}

\* C19: once every store and removal has returned, with Ok or with Err, the
\* index of a user lists a key id exactly when the record of that key exists.
C19_IndexAgreesWithRecords ==
    AllVaultIdle =>
        \A u \in VaultUsers, k \in 1 .. MaxApiKeyIds :
            contains(ai_key_index[u], k) <=> <<u, k>> \in ai_key_records

\* C20: no index update is lost: a key whose store has returned Ok, and
\* whose removal nobody has asked for, is in the index of its user.
C20_NoLostIndexUpdate ==
    \A e \in vault_hist.stored_ok \ vault_hist.remove_begun :
        contains(ai_key_index[e[1]], e[2])


\* C21: a listing whose read of the index succeeded returns without error,
\* passes over every index entry whose record is missing or unreadable, and
\* returns every indexed key whose record exists and is readable, once each
\* and in index order.
C21_ListingSkipsDangling ==
    vault_list.index_read = "ok" =>
        /\ vault_list.result = "ok"
        /\ ids_of(vault_list.keys) = vault_list.present \ vault_list.unreadable
        /\ vault_list.keys = SelectSeq(vault_list.key_ids,
               LAMBDA k : k \in vault_list.present \ vault_list.unreadable)

C21_Witness ==
    /\ vault_list.result = "ok"
    /\ ids_of(vault_list.key_ids) \ vault_list.present # {}
    /\ vault_list.unreadable \cap vault_list.present # {}
    /\ vault_list.keys # << >>


\* C22: when the id that a store returned is given to the call that lists
\* the keys of the owner and decrypts the one with that key_id, while the
\* key is stored, the key is found and the plaintext and the provider
\* obtained are the ones that were stored.
C22_StoreListDecrypt ==
    (vault_validate.op = "validate" /\ vault_validate.stored_id_listed) =>
        \A g \in vault_given :
            (g.user = vault_validate.user /\ g.api_key_id = vault_validate.api_key_id) =>
                /\ vault_validate.result # "not_found"
                /\ vault_validate.decrypted = g.api_key
                /\ vault_validate.provider = g.provider


C25_MalformedYieldsSuccess ==
    (/\ response.surface # "none"
     /\ \/ response.chat = "malformed"
        \/ response.user = NoUser
        \/ response.kind = "validation_error")
    => response.kind \in {"malformed", "update_processed"}


\* C26: the handling of a bot command sent as a message ends in a text, in
\* the permission-denied text or in the session-required text, never in an
\* error returned to the caller.
C26_CommandNeverErrors ==
    (response.surface = "message" /\ response.command \in TypedCommands \ {"unknown"})
    => response.kind \in {"handler", "start_keyboard", "private_only_notice",
                          "invalid_user_id", "malformed", "permission_denied",
                          "session_required"}


\* C27: no tier of the market-data read path returns a price series with
\* zero points as a success: every series that
\* fetch_exchange_data_for_positions hands back has at least one point.
C27_NoEmptySeriesAsSuccess ==
    \A e \in market_last.exchange_data : e.series.points > 0

\* C28: the mock price series is returned only in development mode: when
\* the mode is off, no series handed back by
\* fetch_exchange_data_for_positions is the mock one.
C28_MockOnlyInDevelopmentMode ==
    ~development_mode =>
        \A e \in market_last.exchange_data : e.series.exchange_id # "mock"


\* C29: for every key and plaintext, decrypt_string under the key applied
\* to the text that encrypt_string under the same key produced returns
\* exactly the plaintext, in both services.
C29_DecryptInvertsEncrypt ==
    (crypt.pc = "decrypted" /\ ~crypt.tampered) => crypt.decrypted = Ok(crypt.plaintext)

\* AES-GCM round trip of a plaintext with a two-byte character.
C29_Witness ==
    /\ crypt.pc = "decrypted" /\ ~crypt.tampered /\ crypt.cipher = "aes_gcm"
    /\ crypt.plaintext = <<107, 195, 169>>
    /\ crypt.encryption_key = <<107, 49>>
    /\ crypt.decrypted = Ok(crypt.plaintext)

\* C30: a ciphertext of the vault that was changed in one character is
\* never decrypted to a plaintext: decrypt_string fails on it.
C30_TamperedNeverDecrypts ==
    (crypt.pc = "decrypted" /\ crypt.tampered) => ~crypt.decrypted.ok


\* C31: building a provider from a Custom key whose metadata holds no
\* non-empty base_url fails with a configuration error, and no provider
\* comes out of it.
C31_CustomNeedsBaseUrl ==
    (/\ vault_validate.key_provider = "Custom"
     /\ ~(vault_validate.metadata_base_url.kind = "string"
          /\ vault_validate.metadata_base_url.text # ""))
    => (vault_validate.result = "configuration_error" /\ vault_validate.provider = "none")


C34_CrossVenueHasTwoVenues ==
    global_opp.type = "CrossExchange" =>
        global_opp.long_exchange # global_opp.short_exchange



\* C35: a callback query whose fields are all present, for an action other
\* than help or start, from a user whose session is not live while a session
\* service is configured, ends with the session-required response and with
\* nothing else sent.
C35_CallbackNeedsSession ==
    [][(/\ response = NoResponse
        /\ response'.surface = "callback"
        /\ response'.kind # "validation_error"
        /\ response'.command \notin {"help", "start"}
        /\ session_management_service
        /\ ~session_live(response'.user))
       => (response'.kind = "session_required"
           /\ response'.emitted = "session_required")]_vars



\* C36: for every action offered both as a typed command and as a callback
\* button, the callback's allow/deny decision for a user is the decision the
\* typed command takes in a private chat for the same user and the same
\* stored record.
SharedActions ==
    {"ai_insights", "risk_assessment", "balance", "orders", "positions", "buy",
     "sell", "auto_enable", "auto_disable", "auto_config", "admin_users",
     "admin_stats", "admin_config", "admin_broadcast"}

C36_SameDecisionOnBothSurfaces ==
    [][(/\ response = NoResponse
        /\ response'.surface = "callback"
        /\ response'.command \in SharedActions
        /\ response'.kind \in {"handler", "permission_denied"})
       => \E lookup \in get_user_by_telegram_id(parse_i64_or_zero(response'.user)) :
             /\ handle_permissioned_command(response'.user,
                    callback_permission(response'.command),
                    response'.command, lookup).kind = response'.kind
             /\ private_command(response'.command, response'.user, lookup).kind
                    = response'.kind]_vars



\* C37: however the check_ai_rate_limit calls of different isolates
\* interleave, the calls admitted under one rate key (one user, one hour)
\* never number more than max_ai_calls_per_hour.
C37_ConcurrentAdmissionsWithinLimit ==
    \A k \in RateKeys : rate_conc.admitted[k] <= max_ai_calls_per_hour



\* C38: whatever add_api_key, update_api_key and delete_api_key calls were
\* made, a user's profile holds at most one active key for each exchange.
C38_OneActiveKeyPerExchange ==
    \A u \in ExchangeApiUsers, e \in ExchangeIds :
        Cardinality({i \in DOMAIN api_keys[u] :
                        api_keys[u][i].exchange = e /\ api_keys[u][i].is_active}) <= 1


\* C39: the result a check_exchange_compatibility call returns is the one
\* computed from the active exchange keys the user's profile holds at the
\* time of the call.
C39_CompatibilityMatchesCurrentKeys ==
    exchange_last.call = "check_exchange_compatibility"
    => exchange_last.compatibility
          = compatibility_result(get_user_api_keys(api_keys[exchange_last.user]))



\* C40: a remove_ai_credentials call for an api_key_id that the user holds
\* neither in the index nor as a record ends with NotFound, and changes
\* neither the index nor any stored record.
C40_RemoveOfMissingKeyIsNotFound ==
    (vault_last.op = "remove" /\ ~vault_last.held)
    => (vault_last.result = "not_found" /\ ~vault_last.changed)

====
